---- MODULE Spec2Model ----
(***************************************************************************)
(* Session layer of the VTuber backend: WebSocketHandler                   *)
(* (backend/src/open_llm_vtuber/websocket_handler.py) and the /client-ws   *)
(* endpoint (routes.py).  One connection coroutine per client, one asyncio *)
(* task per conversation turn.  A step of the model is the code a          *)
(* coroutine runs between two suspension points.                           *)
(*                                                                         *)
(* chat_group.py and conversations/conversation_handler.py are called by   *)
(* the handler but are not part of the sources at hand; the operators that *)
(* stand for them follow the written specification (sections 3, 4.2, 4.4   *)
(* and 5) and are marked "specification-modelled" below.                   *)
(***************************************************************************)
EXTENDS Integers, Sequences, FiniteSets, TLC

\* ------------------------------------------------------------------ bounds
MaxTasks == 2      \* conversation tasks created in one run
MaxBuf == 2        \* samples a client's buffer holds before it must be drained
MaxOutputs == 2    \* outputs the agent engine, or the VAD, yields for one request

\* ------------------------------------------------------------- value sets
Clients == {"A", "B", "C"}          \* client ids (uuid4 strings in routes.py)
ClientSeq == <<"A", "B", "C">>      \* iteration order of a member list
TaskIds == 1..MaxTasks
NoGroup == ""                       \* client_group_map value: no group
HeardTexts == {"", "ok"}            \* heard-response texts of interrupt-signal
ConversationTypes == {"mic-audio-end", "text-input", "ai-speak-signal"}
BackendModes == {"orphiq", "external-api", "autonomous"}
DefaultMode == "orphiq"

VARIABLES
    pc,                         \* position of each client's connection coroutine
    transportOpen,              \* the peer's socket is still connected
    client_connections,         \* keys of WebSocketHandler.client_connections
    client_contexts,            \* client -> ServiceContext (history_uid)
    received_data_buffers,      \* client -> sample sequence
    client_adapters,            \* client -> adapter instance
    backend_modes,              \* client -> mode tag
    acked_modes,                \* history: client -> mode of its latest
                                \* set-backend-mode answered backend-mode-set
    client_group_map,           \* ChatGroupManager.client_group_map
    groups,                     \* ChatGroupManager.groups: id -> [owner, members]
    current_conversation_tasks, \* client -> task handle
    tasks,                      \* task handle -> [owner, state]
    agent_memory,               \* memory of the agent engine all contexts share
    local,                      \* locals of a handler suspended at an await
    out,                        \* envelopes sent by the latest step, in order
    ev                          \* the latest step: [op, c, exc, arg, input]

registryVars == <<client_connections, client_contexts, received_data_buffers,
                  client_adapters, backend_modes, acked_modes,
                  current_conversation_tasks>>
groupVars == <<client_group_map, groups>>
sessionVars == <<registryVars, groupVars, tasks, agent_memory>>
vars == <<pc, transportOpen, sessionVars, local, out, ev>>

\* ---------------------------------------------------------------- helpers
Put(f, k, v) == [x \in DOMAIN f \cup {k} |-> IF x = k THEN v ELSE f[x]]
Pop(f, k) == [x \in DOMAIN f \ {k} |-> f[x]]
EmptyMap == [x \in {} |-> 0]
ListOf(S) == SelectSeq(ClientSeq, LAMBDA x : x \in S)

Envelope(to, type, text, members, is_owner) ==
    [to |-> to, type |-> type, text |-> text, members |-> members, is_owner |-> is_owner,
     is_complete |-> FALSE, result |-> ""]
Msg(to, type, text) == Envelope(to, type, text, {}, FALSE)
NoLocal == [awaiting |-> {}, heard |-> "", gid |-> NoGroup, kind |-> "", input |-> <<>>,
            full_text |-> "", chunks |-> <<>>, produced |-> 0]
EventArg(op, c, exc, arg) ==
    [op |-> op, c |-> c, exc |-> exc, arg |-> arg, input |-> <<>>]
\* the step of a command: its outcome and the value the message carried
Command(op, c, exc, outcome, input) ==
    [EventArg(op, c, exc, outcome) EXCEPT !.input = input]
Event(op, c, exc) == EventArg(op, c, exc, "")

\* asyncio.Task: running -> done, or running -> cancelling -> cancelled; a task
\* that has ended no longer runs for anyone, so its record keeps no owner
NoTaskRec == [owner |-> "", state |-> "none", input |-> <<>>]
IsLive(t) == tasks[t].state \in {"running", "cancelling"}
IsDone(t) == tasks[t].state \in {"done", "cancelled"}
FreeTaskIds == {t \in TaskIds : tasks[t].state = "none"}
LiveTasksOf(c) == {t \in TaskIds : tasks[t].owner = c /\ IsLive(t)}
\* task.cancel(): requests cancellation; the task ends when it next runs
CancelAll(T) == [t \in TaskIds |-> IF t \in T /\ tasks[t].state = "running"
                                   THEN [tasks[t] EXCEPT !.state = "cancelling"]
                                   ELSE tasks[t]]
\* the entry of client c that refers to a task that is not done
OutstandingOf(c) ==
    IF c \in DOMAIN current_conversation_tasks /\ IsLive(current_conversation_tasks[c])
    THEN {current_conversation_tasks[c]} ELSE {}

\* the agent engine is shared by every session context (_init_service_context)
MemoryOf(c) == agent_memory

\* ------------------------------------------- ChatGroupManager (chat_group.py)
\* specification-modelled: sections 3 and 4.2
GroupId(owner) == "group_" \o owner
GetClientGroup(c) ==
    IF c \in DOMAIN client_group_map THEN client_group_map[c] ELSE NoGroup
MembersOf(gid) == IF gid \in DOMAIN groups THEN groups[gid].members ELSE {}
GetGroupMembers(c) == MembersOf(GetClientGroup(c))

GM(map, grps, affected, ok) ==
    [map |-> map, groups |-> grps, affected |-> affected, ok |-> ok]
\* a leave that resets the reverse map and forgets the member set
LeaveGroupStale(map, grps, c) ==
    LET gid == IF c \in DOMAIN map THEN map[c] ELSE NoGroup IN
    IF gid = NoGroup \/ gid \notin DOMAIN grps THEN GM(map, grps, {}, FALSE)
    ELSE GM([map EXCEPT ![c] = NoGroup], grps, grps[gid].members, TRUE)
\* c leaves its group; the owner leaving dissolves the group
LeaveGroup(map, grps, c) ==
    LET gid == IF c \in DOMAIN map THEN map[c] ELSE NoGroup IN
    IF gid = NoGroup \/ gid \notin DOMAIN grps THEN GM(map, grps, {}, FALSE)
    ELSE LET g == grps[gid] IN
         IF g.owner = c \/ g.members = {c}
         THEN GM([x \in DOMAIN map |-> IF x \in g.members THEN NoGroup ELSE map[x]],
                 Pop(grps, gid), g.members, TRUE)
         ELSE GM([map EXCEPT ![c] = NoGroup],
                 [grps EXCEPT ![gid].members = @ \ {c}], g.members, TRUE)
AddClientToGroup(map, grps, inviter, invitee) ==
    IF invitee \notin DOMAIN map \/ inviter \notin DOMAIN map
    THEN GM(map, grps, {}, FALSE)
    ELSE IF map[invitee] # NoGroup /\ map[invitee] = map[inviter]
    THEN GM(map, grps, {}, FALSE)
    ELSE LET left == IF map[invitee] # NoGroup THEN LeaveGroup(map, grps, invitee)
                     ELSE GM(map, grps, {}, TRUE)
             gid == IF left.map[inviter] # NoGroup THEN left.map[inviter]
                    ELSE GroupId(inviter)
             base == IF gid \in DOMAIN left.groups THEN left.groups[gid]
                     ELSE [owner |-> inviter, members |-> {inviter}]
             joined == [base EXCEPT !.members = @ \cup {invitee}]
         IN GM([x \in DOMAIN map |-> IF x \in joined.members THEN gid ELSE left.map[x]],
               Put(left.groups, gid, joined),
               left.affected \cup joined.members, TRUE)
RemoveClientFromGroup(map, grps, remover, target) ==
    LET gid == IF target \in DOMAIN map THEN map[target] ELSE NoGroup IN
    IF gid = NoGroup \/ gid \notin DOMAIN grps THEN GM(map, grps, {}, FALSE)
    ELSE IF remover # target /\ grps[gid].owner # remover THEN GM(map, grps, {}, FALSE)
    ELSE LeaveGroup(map, grps, target)
\* remove_client on disconnect: leave the group and drop the reverse-map entry
RemoveClient(map, grps, c) ==
    LET left == LeaveGroup(map, grps, c) IN
    GM(Pop(left.map, c), left.groups, left.affected \ {c}, left.ok)

\* ------------------------------------------------- envelopes of the handler
\* an update that tells every member of a group that it is the owner
GroupUpdateInAllOwners(map, grps, c) ==
    LET gid == IF c \in DOMAIN map THEN map[c] ELSE NoGroup IN
    IF gid # NoGroup /\ gid \in DOMAIN grps
    THEN Envelope(c, "group-update", "", grps[gid].members, TRUE)
    ELSE Envelope(c, "group-update", "", {}, FALSE)
\* send_group_update: members and is_owner relative to the recipient
GroupUpdateIn(map, grps, c) ==
    LET gid == IF c \in DOMAIN map THEN map[c] ELSE NoGroup IN
    IF gid # NoGroup /\ gid \in DOMAIN grps
    THEN Envelope(c, "group-update", "", grps[gid].members, grps[gid].owner = c)
    ELSE Envelope(c, "group-update", "", {}, FALSE)
GroupUpdate(c) == GroupUpdateIn(client_group_map, groups, c)

\* broadcast_to_group (chat_group.py), specification-modelled (section 4.2):
\* every listed member but exclude_uid whose transport is registered; a send
\* that fails (peer gone) is skipped and the loop goes on
RECURSIVE BroadcastFromAbort(_, _, _, _, _)
\* a broadcast that stops at the first member it cannot reach
BroadcastFromAbort(i, members, type, text, exclude) ==
    IF i > Len(members) THEN <<>>
    ELSE LET m == members[i] IN
         IF m = exclude THEN BroadcastFromAbort(i + 1, members, type, text, exclude)
         ELSE IF m \in client_connections /\ transportOpen[m]
         THEN <<Msg(m, type, text)>> \o BroadcastFromAbort(i + 1, members, type, text, exclude)
         ELSE <<>>
RECURSIVE BroadcastFrom(_, _, _, _, _)
BroadcastFrom(i, members, type, text, exclude) ==
    IF i > Len(members) THEN <<>>
    ELSE LET m == members[i]
             rest == BroadcastFrom(i + 1, members, type, text, exclude)
         IN IF m # exclude /\ m \in client_connections /\ transportOpen[m]
            THEN <<Msg(m, type, text)>> \o rest
            ELSE rest
BroadcastToGroup(members, type, text, exclude) ==
    BroadcastFrom(1, members, type, text, exclude)

\* group-update to every affected client that is still registered
RECURSIVE UpdatesFrom(_, _, _, _)
UpdatesFrom(i, members, map, grps) ==
    IF i > Len(members) THEN <<>>
    ELSE LET m == members[i] IN
         (IF m \in client_connections /\ transportOpen[m]
          THEN <<GroupUpdateIn(map, grps, m)>> ELSE <<>>)
         \o UpdatesFrom(i + 1, members, map, grps)

\* ------------------------------------------------------------------- Init
Init ==
    /\ pc = [c \in Clients |-> "new"]
    /\ transportOpen = [c \in Clients |-> FALSE]
    /\ client_connections = {}
    /\ client_contexts = EmptyMap
    /\ received_data_buffers = EmptyMap
    /\ client_adapters = EmptyMap
    /\ backend_modes = EmptyMap
    /\ acked_modes = EmptyMap
    /\ client_group_map = EmptyMap
    /\ groups = EmptyMap
    /\ current_conversation_tasks = EmptyMap
    /\ tasks = [t \in TaskIds |-> NoTaskRec]
    /\ agent_memory = "init"
    /\ local = [c \in Clients |-> NoLocal]
    /\ out = <<>>
    /\ ev = Event("init", "", FALSE)

\* a loop that takes the next message while a handler of the client is suspended
ReceivingWhileSuspended(c) == pc[c] \in {"recv", "gen_wait"} /\ transportOpen[c]
\* a server that reads no message while a stream of any client is being served
ReceivingExclusive(c) ==
    pc[c] = "recv" /\ transportOpen[c] /\ \A d \in Clients : pc[d] # "gen_wait"
\* a message of client c has been received and its handler may start
Receiving(c) == pc[c] = "recv" /\ transportOpen[c]

\* ------------------------------------------------------------ connection
\* websocket_endpoint -> handle_new_connection: _init_service_context,
\* _store_client_data, _send_initial_messages
StoreClientData(c) ==
    /\ client_connections' = client_connections \cup {c}
    /\ client_contexts' = Put(client_contexts, c, [history_uid |-> ""])
    /\ received_data_buffers' = Put(received_data_buffers, c, <<>>)
    /\ client_group_map' = Put(client_group_map, c, NoGroup)
\* a handshake that starts the microphone before it describes the model
InitialMessagesMicFirst(c) ==
    <<Envelope(c, "group-update", "", {}, FALSE),
      Msg(c, "full-text", "Connection established"),
      Msg(c, "control", "start-mic"),
      Msg(c, "set-model-and-conf", c),
      Envelope(c, "group-update", "", {}, FALSE)>>
\* the envelopes of _store_client_data and _send_initial_messages, in order
InitialMessages(c) ==
    <<Envelope(c, "group-update", "", {}, FALSE),
      Msg(c, "full-text", "Connection established"),
      Msg(c, "set-model-and-conf", c),
      Envelope(c, "group-update", "", {}, FALSE),
      Msg(c, "control", "start-mic")>>
Register(c) ==
    /\ pc[c] = "new"
    /\ StoreClientData(c)
    /\ transportOpen' = [transportOpen EXCEPT ![c] = TRUE]
    /\ pc' = [pc EXCEPT ![c] = "recv"]
    /\ out' = InitialMessages(c)
    /\ ev' = Event("register", c, FALSE)
    /\ UNCHANGED <<client_adapters, backend_modes, acked_modes, groups,
                   current_conversation_tasks, tasks, agent_memory, local>>
\* handle_new_connection fails: _init_service_context raises and nothing is
\* stored, or the maps are set and one of the initial sends raises after
\* `sent` envelopes.  The except block calls _cleanup_failed_connection, which
\* the class does not define, so an exception leaves handle_new_connection
\* either way and the receive loop never starts; the endpoint re-raises after
\* its teardown, so the socket is never usable by a handler
RegisterFails(c, stored, sent) ==
    /\ pc[c] = "new"
    /\ sent \in 0..(Len(InitialMessages(c)) - 1)
    /\ IF stored
       THEN /\ StoreClientData(c)
            /\ out' = SubSeq(InitialMessages(c), 1, sent)
       ELSE /\ sent = 0
            /\ out' = <<>>
            /\ UNCHANGED <<client_connections, client_contexts,
                           received_data_buffers, client_group_map>>
    /\ pc' = [pc EXCEPT ![c] = "fatal"]
    /\ ev' = Event("register-failed", c, TRUE)
    /\ UNCHANGED <<transportOpen, client_adapters, backend_modes, acked_modes, groups,
                   current_conversation_tasks, tasks, agent_memory, local>>

\* the peer closes its socket; the server notices at its next receive or send
TransportClose(c) ==
    /\ transportOpen[c]
    /\ transportOpen' = [transportOpen EXCEPT ![c] = FALSE]
    /\ out' = <<>>
    /\ ev' = Event("transport-close", c, FALSE)
    /\ UNCHANGED <<pc, sessionVars, local>>

\* ----------------------------------------------- receive loop and router
\* a router that lets the handler's exception leave the loop
RouterCatchReraise(c, sendOk) ==
    /\ pc' = [pc EXCEPT ![c] = "fatal"]
    /\ out' = <<>>
    /\ UNCHANGED transportOpen
\* handle_websocket_communication, "except Exception": the error envelope is
\* sent and the loop continues; if that send itself fails because the peer
\* has gone, the exception leaves the loop
RouterCatch(c, sendOk) ==
    IF sendOk
    THEN /\ pc' = [pc EXCEPT ![c] = "recv"]
         /\ out' = <<Msg(c, "error", "exception")>>
         /\ UNCHANGED transportOpen
    ELSE /\ pc' = [pc EXCEPT ![c] = "fatal"]
         /\ transportOpen' = [transportOpen EXCEPT ![c] = FALSE]
         /\ out' = <<>>

\* _route_message: a missing or empty tag returns, an unknown tag is logged
UnknownTags == {"", "foo-bar", "frontend-playback-complete"}
\* a router that answers an unknown tag with an error envelope
RouteUnknownReplies(c, tag) ==
    /\ Receiving(c)
    /\ tag \in UnknownTags
    /\ out' = <<Msg(c, "error", "Unknown message type")>>
    /\ ev' = EventArg("unknown", c, FALSE, tag)
    /\ UNCHANGED <<pc, transportOpen, sessionVars, local>>
RouteUnknown(c, tag) ==
    /\ Receiving(c)
    /\ tag \in UnknownTags
    /\ out' = <<>>
    /\ ev' = EventArg("unknown", c, FALSE, tag)
    /\ UNCHANGED <<pc, transportOpen, sessionVars, local>>

\* _handle_audio_data; len(data.get("audio", [])) raises on "audio": null
AudioInputs == {[kind |-> "missing", samples |-> <<>>],
                [kind |-> "null", samples |-> <<>>],
                [kind |-> "list", samples |-> <<>>],
                [kind |-> "list", samples |-> <<1>>]}
\* a sample that is not a float32 value: 2^24 + 1
UnroundedAudioInputs == {[kind |-> "list", samples |-> <<16777217>>]}
\* np.array(audio_data, dtype=np.float32) on integer samples: exact up to
\* 2^24, and between 2^24 and 2^25 the nearest even integer, a tie going to
\* the one with the even mantissa
Float32(x) ==
    IF x <= 16777216 THEN x
    ELSE IF x % 2 = 0 THEN x
    ELSE IF (x \div 2) % 2 = 0 THEN 2 * (x \div 2) ELSE 2 * ((x \div 2) + 1)
AsFloat32(samples) == [i \in 1..Len(samples) |-> Float32(samples[i])]
\* a handler that puts the new samples in front of the buffer
AppendedInFront(buffer, samples) == samples \o buffer
\* np.append(buffer, array)
Appended(buffer, samples) == buffer \o samples
HandleAudioData(c, audio, sendOk) ==
    /\ Receiving(c)
    /\ audio \in AudioInputs \cup UnroundedAudioInputs
    /\ Len(received_data_buffers[c]) + Len(audio.samples) <= MaxBuf
    /\ IF audio.kind = "null"
       THEN /\ RouterCatch(c, sendOk)
            /\ ev' = Command("mic-audio-data", c, TRUE, "", <<audio>>)
            /\ UNCHANGED received_data_buffers
       ELSE /\ sendOk
            /\ received_data_buffers' =
                 [received_data_buffers EXCEPT ![c] =
                     Appended(@, AsFloat32(audio.samples))]
            /\ out' = <<>>
            /\ ev' = Command("mic-audio-data", c, FALSE, "", <<audio>>)
            /\ UNCHANGED <<pc, transportOpen>>
    /\ UNCHANGED <<client_connections, client_contexts, client_adapters, backend_modes, acked_modes,
                   groupVars, current_conversation_tasks, tasks, agent_memory, local>>

\* _handle_history_list_request; get_history_list is a collaborator that may raise
HandleHistoryList(c, raises, sendOk) ==
    /\ Receiving(c)
    /\ IF raises
       THEN /\ RouterCatch(c, sendOk)
            /\ ev' = Event("fetch-history-list", c, TRUE)
       ELSE /\ sendOk
            /\ out' = <<Msg(c, "history-list", "")>>
            /\ ev' = Event("fetch-history-list", c, FALSE)
            /\ UNCHANGED <<pc, transportOpen>>
    /\ UNCHANGED <<sessionVars, local>>

\* ---------------------------------------------------------- history handlers
\* the history_uid of a message: "" stands for a missing or an empty field
HistoryIds == {"", "h1", "h2"}
\* create_new_history returns the id of the history it made
CreatedHistory == "h3"
\* set_memory_from_history of the agent engine
SetMemoryFromHistory(history_uid) == history_uid
\* the collaborators of a history operation: each call returns or raises, and
\* the send of the reply may meet a closed socket
HistoryOutcomes == {"success", "failed", "store-raises", "memory-raises", "peer-gone"}
\* "context.history_uid = history_uid" comes first in _handle_fetch_history
FetchAssigns(outcome, history_uid, old) == history_uid
\* _handle_fetch_history: history_uid is assigned, the engine's memory is set,
\* get_history is called, and history-data is sent
HandleFetchHistory(c, history_uid, outcome) ==
    /\ Receiving(c)
    /\ history_uid \in HistoryIds
    /\ outcome \in HistoryOutcomes \ {"failed"}
    /\ IF history_uid = ""
       THEN /\ outcome = "success"
            /\ out' = <<>>
            /\ ev' = Command("fetch-and-set-history", c, FALSE, "missing", <<history_uid>>)
            /\ UNCHANGED <<pc, transportOpen, client_contexts, agent_memory>>
       ELSE /\ client_contexts' =
                 [client_contexts EXCEPT ![c].history_uid =
                     FetchAssigns(outcome, history_uid, @)]
            /\ agent_memory' = IF outcome = "memory-raises" THEN agent_memory
                                ELSE SetMemoryFromHistory(history_uid)
            /\ IF outcome = "success"
               THEN /\ out' = <<Msg(c, "history-data", history_uid)>>
                    /\ UNCHANGED <<pc, transportOpen>>
               ELSE RouterCatch(c, outcome # "peer-gone")
            /\ ev' = Command("fetch-and-set-history", c, outcome # "success",
                             outcome, <<history_uid>>)
    /\ UNCHANGED <<client_connections, received_data_buffers, client_adapters,
                   backend_modes, acked_modes, current_conversation_tasks,
                   groupVars, tasks, local>>
\* _handle_create_history: create_new_history returns an id or nothing; with an
\* id the context and the engine's memory are set and new-history-created is sent
HandleCreateHistory(c, outcome) ==
    /\ Receiving(c)
    /\ outcome \in HistoryOutcomes
    /\ IF outcome \in {"failed", "store-raises"}
       THEN /\ IF outcome = "failed"
               THEN out' = <<>> /\ UNCHANGED <<pc, transportOpen>>
               ELSE RouterCatch(c, TRUE)
            /\ UNCHANGED <<client_contexts, agent_memory>>
       ELSE /\ client_contexts' =
                 [client_contexts EXCEPT ![c].history_uid = CreatedHistory]
            /\ agent_memory' = IF outcome = "memory-raises" THEN agent_memory
                                ELSE SetMemoryFromHistory(CreatedHistory)
            /\ IF outcome = "success"
               THEN /\ out' = <<Msg(c, "new-history-created", CreatedHistory)>>
                    /\ UNCHANGED <<pc, transportOpen>>
               ELSE RouterCatch(c, outcome # "peer-gone")
    /\ ev' = Command("create-new-history", c, outcome \notin {"success", "failed"},
                     outcome, <<>>)
    /\ UNCHANGED <<client_connections, received_data_buffers, client_adapters,
                   backend_modes, acked_modes, current_conversation_tasks,
                   groupVars, tasks, local>>
\* "if history_uid == context.history_uid: context.history_uid = None" follows
\* the send of history-deleted, whatever delete_history returned
DeleteClears(outcome, history_uid, old) ==
    IF outcome \in {"success", "failed"} /\ history_uid = old THEN "" ELSE old
\* _handle_delete_history
HandleDeleteHistory(c, history_uid, outcome) ==
    /\ Receiving(c)
    /\ history_uid \in HistoryIds
    /\ outcome \in HistoryOutcomes \ {"memory-raises"}
    /\ IF history_uid = ""
       THEN /\ outcome = "success"
            /\ out' = <<>>
            /\ ev' = Command("delete-history", c, FALSE, "missing", <<history_uid>>)
            /\ UNCHANGED <<pc, transportOpen, client_contexts>>
       ELSE /\ client_contexts' =
                 [client_contexts EXCEPT ![c].history_uid =
                     DeleteClears(outcome, history_uid, @)]
            /\ IF outcome \in {"success", "failed"}
               THEN /\ out' = <<[Msg(c, "history-deleted", history_uid) EXCEPT
                                   !.result = IF outcome = "success" THEN "true"
                                              ELSE "false"]>>
                    /\ UNCHANGED <<pc, transportOpen>>
               ELSE RouterCatch(c, outcome # "peer-gone")
            /\ ev' = Command("delete-history", c, outcome \notin {"success", "failed"},
                             outcome, <<history_uid>>)
    /\ UNCHANGED <<client_connections, received_data_buffers, client_adapters,
                   backend_modes, acked_modes, current_conversation_tasks,
                   groupVars, tasks, agent_memory, local>>

\* ------------------------------------------------- configs and backgrounds
\* _handle_fetch_configs and _handle_fetch_backgrounds: a directory scan that
\* may raise, then one envelope
HandleFetchList(c, tag, raises) ==
    /\ Receiving(c)
    /\ tag \in {"fetch-configs", "fetch-backgrounds"}
    /\ IF raises
       THEN RouterCatch(c, TRUE)
       ELSE /\ out' = <<Msg(c, IF tag = "fetch-configs" THEN "config-files"
                               ELSE "background-files", "")>>
            /\ UNCHANGED <<pc, transportOpen>>
    /\ ev' = EventArg(tag, c, raises, IF raises THEN "raised" ELSE "success")
    /\ UNCHANGED <<sessionVars, local>>
\* the file of a switch-config message: "" stands for a missing or an empty field
ConfigFiles == {"", "alt.yaml"}
\* ServiceContext.handle_config_switch: the context loads the file and tells
\* the client the new model and that the switch was made
ContextConfigSwitch(c, file) ==
    <<Msg(c, "set-model-and-conf", c), Msg(c, "config-switched", file)>>
\* _handle_config_switch
HandleConfigSwitch(c, file, raises) ==
    /\ Receiving(c)
    /\ file \in ConfigFiles
    /\ IF file = ""
       THEN /\ ~raises
            /\ out' = <<>>
            /\ ev' = Command("switch-config", c, FALSE, "missing", <<file>>)
            /\ UNCHANGED <<pc, transportOpen>>
       ELSE /\ IF raises
               THEN RouterCatch(c, TRUE)
               ELSE /\ out' = ContextConfigSwitch(c, file)
                    /\ UNCHANGED <<pc, transportOpen>>
            /\ ev' = Command("switch-config", c, raises,
                             IF raises THEN "raised" ELSE "success", <<file>>)
    /\ UNCHANGED <<sessionVars, local>>

\* _handle_group_info -> send_group_update
HandleGroupInfo(c) ==
    /\ Receiving(c)
    /\ out' = <<GroupUpdate(c)>>
    /\ ev' = Event("request-group-info", c, FALSE)
    /\ UNCHANGED <<pc, transportOpen, sessionVars, local>>

\* ------------------------------------------------------------ group handlers
\* _handle_group_operation -> handle_group_operation (chat_group.py,
\* specification-modelled): the membership change and a group-update to every
\* affected client
HandleGroupOperation(c, operation, target) ==
    /\ Receiving(c)
    /\ operation \in {"add-client-to-group", "remove-client-from-group"}
    /\ LET r == IF operation = "add-client-to-group"
                THEN AddClientToGroup(client_group_map, groups, c, target)
                ELSE RemoveClientFromGroup(client_group_map, groups, c, target)
       IN /\ client_group_map' = r.map
          /\ groups' = r.groups
          /\ out' = UpdatesFrom(1, ListOf(r.affected), r.map, r.groups)
    /\ ev' = Event(operation, c, FALSE)
    /\ UNCHANGED <<pc, transportOpen, registryVars, tasks, agent_memory, local>>

\* an echo that goes to every member of the group, the sender included
HandleAudioPlayStartToAll(c, hasDisplayText) ==
    /\ Receiving(c)
    /\ out' = IF Cardinality(GetGroupMembers(c)) > 1 /\ hasDisplayText
              THEN BroadcastToGroup(ListOf(GetGroupMembers(c)), "audio", "display_text", "")
              ELSE <<>>
    /\ ev' = EventArg("audio-play-start", c, FALSE,
                    IF hasDisplayText THEN "display_text" ELSE "")
    /\ UNCHANGED <<pc, transportOpen, sessionVars, local>>
\* _handle_audio_play_start: silent echo to the other members of the group
HandleAudioPlayStart(c, hasDisplayText) ==
    /\ Receiving(c)
    /\ out' = IF Cardinality(GetGroupMembers(c)) > 1 /\ hasDisplayText
              THEN BroadcastToGroup(ListOf(GetGroupMembers(c)), "audio", "display_text", c)
              ELSE <<>>
    /\ ev' = EventArg("audio-play-start", c, FALSE,
                    IF hasDisplayText THEN "display_text" ELSE "")
    /\ UNCHANGED <<pc, transportOpen, sessionVars, local>>

\* ---------------------------------------------------------------- adapters
\* an Optional value: None, or a one-element sequence
None == <<>>

\* OrphiqAdapter.__init__: no expression and no motion recorded yet; `instance`
\* tells the new object from the one it replaces
NewAdapter(instance) ==
    [mode |-> "orphiq", instance |-> instance, expression |-> None, motion |-> None]
FreshInstance(c) ==
    IF c \in DOMAIN client_adapters /\ client_adapters[c].instance = 1 THEN 2 ELSE 1

\* _get_adapter: the adapter of the client, created on first use; only the
\* "orphiq" mode has an adapter class, any other mode raises ValueError
ModeOf(modes, c) == IF c \in DOMAIN modes THEN modes[c] ELSE DefaultMode
\* a lookup that builds a new adapter on every call
GetAdapterAlwaysNew(adapters, modes, c) ==
    IF c \notin DOMAIN client_contexts THEN [ok |-> FALSE, adapters |-> adapters]
    ELSE IF ModeOf(modes, c) = "orphiq"
    THEN [ok |-> TRUE, adapters |-> Put(adapters, c, NewAdapter(FreshInstance(c)))]
    ELSE [ok |-> FALSE, adapters |-> adapters]
GetAdapter(adapters, modes, c) ==
    IF c \in DOMAIN adapters THEN [ok |-> TRUE, adapters |-> adapters]
    ELSE IF c \notin DOMAIN client_contexts THEN [ok |-> FALSE, adapters |-> adapters]
    ELSE IF ModeOf(modes, c) = "orphiq"
    THEN [ok |-> TRUE, adapters |-> Put(adapters, c, NewAdapter(FreshInstance(c)))]
    ELSE [ok |-> FALSE, adapters |-> adapters]

\* the websocket_send closure _get_adapter gives the adapter: the client's
\* registered socket, if it has one
AdapterSend(c, type, text) ==
    IF c \in client_connections THEN <<Msg(c, type, text)>> ELSE <<>>

\* what an adapter call meets: it works, something inside it raises, or the
\* peer has gone and every send to it raises
AdapterOutcomes == {"success", "error", "peer-gone"}

\* OrphiqAdapter.trigger_expression: the audio payload is sent, then the
\* expression is recorded; any exception becomes a result of status "error"
\* a trigger that records the expression before it tries to send
TriggerExpressionEager(c, adapter, expression_id, outcome) ==
    [adapter |-> [adapter EXCEPT !.expression = expression_id],
     status |-> IF outcome = "success" THEN "success" ELSE "error",
     sent |-> IF outcome = "success"
              THEN AdapterSend(c, "audio", "Expression " \o ToString(expression_id[1]))
              ELSE <<>>]
TriggerExpression(c, adapter, expression_id, outcome) ==
    IF outcome = "success"
    THEN [adapter |-> [adapter EXCEPT !.expression = expression_id],
          status |-> "success",
          sent |-> AdapterSend(c, "audio", "Expression " \o ToString(expression_id[1]))]
    ELSE [adapter |-> adapter, status |-> "error", sent |-> <<>>]
\* a trigger that records the motion before it tries to send
TriggerMotionEager(c, adapter, motion, outcome) ==
    [adapter |-> [adapter EXCEPT !.motion =
                    <<[group |-> motion.motion_group[1],
                       index |-> motion.motion_index[1],
                       loop |-> motion.loop]>>],
     status |-> IF outcome = "success" THEN "success" ELSE "error",
     sent |-> IF outcome = "success"
              THEN AdapterSend(c, "motion-command", motion.motion_group[1])
              ELSE <<>>]
\* OrphiqAdapter.trigger_motion
TriggerMotion(c, adapter, motion, outcome) ==
    IF outcome = "success"
    THEN [adapter |-> [adapter EXCEPT !.motion =
                         <<[group |-> motion.motion_group[1],
                            index |-> motion.motion_index[1],
                            loop |-> motion.loop]>>],
          status |-> "success",
          sent |-> AdapterSend(c, "motion-command", motion.motion_group[1])]
    ELSE [adapter |-> adapter, status |-> "error", sent |-> <<>>]
\* OrphiqAdapter.get_character_state: the snapshot it returns
CharacterState(adapter) ==
    [current_expression |-> adapter.expression, current_motion |-> adapter.motion]

\* "expression-ack" / "motion-ack": the adapter's result goes out as it is
Ack(c, type, status) == [Msg(c, type, "") EXCEPT !.result = status]

\* a handler that gets the adapter before it validates the command
RejectedAdaptersCreated(adapters, r) == r.adapters
\* the command is validated before _get_adapter is called: a rejected command
\* leaves the adapters as they were
RejectedAdapters(adapters, r) == adapters

\* _handle_expression_command
ExpressionInputs == {None, <<0>>, <<3>>}
HandleExpressionCommand(c, expression_id, outcome) ==
    /\ Receiving(c)
    /\ expression_id \in ExpressionInputs
    /\ outcome \in AdapterOutcomes
    /\ LET r == GetAdapter(client_adapters, backend_modes, c) IN
       IF expression_id = None \/ ~r.ok
       THEN /\ outcome = "success"
            /\ out' = <<Msg(c, "error", IF expression_id = None
                                        THEN "expression_id is required"
                                        ELSE "not yet implemented")>>
            /\ ev' = Command("expression-command", c, FALSE,
                             IF expression_id = None THEN "missing" ELSE "no-adapter",
                             expression_id)
            /\ client_adapters' = RejectedAdapters(client_adapters, r)
            /\ UNCHANGED <<pc, transportOpen>>
       ELSE LET t == TriggerExpression(c, r.adapters[c], expression_id, outcome) IN
            /\ client_adapters' = Put(r.adapters, c, t.adapter)
            /\ IF outcome = "peer-gone"
               THEN /\ RouterCatch(c, FALSE)
                    /\ ev' = Command("expression-command", c, TRUE, t.status, expression_id)
               ELSE /\ out' = t.sent \o <<Ack(c, "expression-ack", t.status)>>
                    /\ ev' = Command("expression-command", c, FALSE, t.status, expression_id)
                    /\ UNCHANGED <<pc, transportOpen>>
    /\ UNCHANGED <<client_connections, client_contexts, received_data_buffers,
                   backend_modes, acked_modes, current_conversation_tasks, groupVars,
                   tasks, agent_memory, local>>

\* _handle_motion_command
MotionInputs ==
    {[motion_group |-> None, motion_index |-> <<0>>, loop |-> FALSE],
     [motion_group |-> <<"idle">>, motion_index |-> None, loop |-> FALSE],
     [motion_group |-> <<"idle">>, motion_index |-> <<0>>, loop |-> FALSE],
     [motion_group |-> <<"tap">>, motion_index |-> <<1>>, loop |-> TRUE]}
MotionMissing(motion) == motion.motion_group = None \/ motion.motion_index = None
HandleMotionCommand(c, motion, outcome) ==
    /\ Receiving(c)
    /\ motion \in MotionInputs
    /\ outcome \in AdapterOutcomes
    /\ LET r == GetAdapter(client_adapters, backend_modes, c) IN
       IF MotionMissing(motion) \/ ~r.ok
       THEN /\ outcome = "success"
            /\ out' = <<Msg(c, "error", IF MotionMissing(motion)
                                        THEN "motion_group and motion_index are required"
                                        ELSE "not yet implemented")>>
            /\ ev' = Command("motion-command", c, FALSE,
                             IF MotionMissing(motion) THEN "missing" ELSE "no-adapter",
                             <<motion>>)
            /\ client_adapters' = RejectedAdapters(client_adapters, r)
            /\ UNCHANGED <<pc, transportOpen>>
       ELSE LET t == TriggerMotion(c, r.adapters[c], motion, outcome) IN
            /\ client_adapters' = Put(r.adapters, c, t.adapter)
            /\ IF outcome = "peer-gone"
               THEN /\ RouterCatch(c, FALSE)
                    /\ ev' = Command("motion-command", c, TRUE, t.status, <<motion>>)
               ELSE /\ out' = t.sent \o <<Ack(c, "motion-ack", t.status)>>
                    /\ ev' = Command("motion-command", c, FALSE, t.status, <<motion>>)
                    /\ UNCHANGED <<pc, transportOpen>>
    /\ UNCHANGED <<client_connections, client_contexts, received_data_buffers,
                   backend_modes, acked_modes, current_conversation_tasks, groupVars,
                   tasks, agent_memory, local>>

\* a call of get_character_state on the client's adapter: it reads the
\* context and the two recorded fields and has no exception handler, so a
\* context without a model lets the AttributeError out
GetCharacterState(c, fails) ==
    /\ c \in DOMAIN client_adapters
    /\ out' = <<>>
    /\ ev' = EventArg("get-character-state", c, FALSE,
                      IF fails THEN "raised" ELSE "success")
    /\ UNCHANGED <<pc, transportOpen, sessionVars, local>>

\* ------------------------------------------------------------ backend mode
\* _handle_set_backend_mode and the _get_adapter call it makes: the mode is
\* validated, the adapter popped, the mode recorded, and then the adapter is
\* created, which raises for every mode but "orphiq"
\* a validation that lets every mode through
AcceptedModeAny(mode) == TRUE
AcceptedMode(mode) == mode \in BackendModes
\* a switch that leaves the adapter in the map
KeepAdapter(adapters, c) == adapters
DiscardAdapter(adapters, c) == Pop(adapters, c)
HandleSetBackendMode(c, mode) ==
    /\ Receiving(c)
    /\ mode \in BackendModes \cup {"bogus"}
    /\ IF ~AcceptedMode(mode)
       THEN /\ out' = <<Msg(c, "error", "Invalid backend mode")>>
            /\ UNCHANGED <<client_adapters, backend_modes, acked_modes>>
       ELSE LET modes == Put(backend_modes, c, mode)
                r == GetAdapter(DiscardAdapter(client_adapters, c), modes, c)
            IN /\ backend_modes' = modes
               /\ client_adapters' = r.adapters
               /\ IF r.ok
                  THEN /\ out' = <<Msg(c, "backend-mode-set", mode)>>
                       /\ acked_modes' = Put(acked_modes, c, mode)
                  ELSE /\ out' = <<Msg(c, "error", "not yet implemented")>>
                       /\ UNCHANGED acked_modes
    /\ ev' = EventArg("set-backend-mode", c, FALSE, mode)
    /\ UNCHANGED <<pc, transportOpen, client_connections, client_contexts,
                   received_data_buffers, current_conversation_tasks, groupVars,
                   tasks, agent_memory, local>>

\* _handle_get_backend_mode
HandleGetBackendMode(c) ==
    /\ Receiving(c)
    /\ out' = <<Msg(c, "backend-mode", ModeOf(backend_modes, c))>>
    /\ ev' = Event("get-backend-mode", c, FALSE)
    /\ UNCHANGED <<pc, transportOpen, sessionVars, local>>

\* ---------------------------------------------------------- text generation
\* _handle_text_generation_request is suspended between the outputs of the
\* agent engine; OrphiqAdapter.generate_text yields the text of a sentence or
\* of an audio output and skips any other output
Prompts == {"", "Say hello"}
AgentOutputs == {[kind |-> "sentence", text |-> "Hello, "],
                 [kind |-> "audio", text |-> "world!"],
                 [kind |-> "other", text |-> ""]}
Streaming(c) == pc[c] = "gen_wait"
\* a send of the handler meets a closed socket: its except block's own send
\* raises as well, and so does the router's
StreamAbort(c, op) ==
    /\ RouterCatch(c, FALSE)
    /\ local' = [local EXCEPT ![c] = NoLocal]
    /\ ev' = EventArg(op, c, TRUE, "peer-gone")
HandleTextGenerationRequest(c, prompt) ==
    /\ Receiving(c)
    /\ prompt \in Prompts
    /\ LET r == GetAdapter(client_adapters, backend_modes, c) IN
       IF prompt = "" \/ ~r.ok
       THEN /\ out' = <<Msg(c, "error", IF prompt = "" THEN "prompt is required"
                                        ELSE "not yet implemented")>>
            /\ ev' = EventArg("text-generation-request", c, FALSE,
                              IF prompt = "" THEN "missing" ELSE "no-adapter")
            /\ UNCHANGED <<pc, client_adapters, local>>
       ELSE /\ client_adapters' = r.adapters
            /\ pc' = [pc EXCEPT ![c] = "gen_wait"]
            /\ local' = [local EXCEPT ![c] =
                           [NoLocal EXCEPT !.kind = "text-generation-request"]]
            /\ out' = <<>>
            /\ ev' = EventArg("text-generation-request", c, FALSE, "started")
    /\ UNCHANGED <<transportOpen, client_connections, client_contexts,
                   received_data_buffers, backend_modes, acked_modes,
                   current_conversation_tasks, groupVars, tasks, agent_memory>>
\* "full_text += text_chunk"
\* a handler that keeps the latest chunk only
AccumulateLatest(full_text, text_chunk) == text_chunk
Accumulate(full_text, text_chunk) == full_text \o text_chunk
\* the agent engine produces one more output
GenerationOutput(c, output) ==
    /\ Streaming(c)
    /\ output \in AgentOutputs
    /\ local[c].produced < MaxOutputs
    /\ IF output.kind = "other"
       THEN /\ local' = [local EXCEPT ![c].produced = @ + 1]
            /\ out' = <<>>
            /\ ev' = EventArg("agent-output", c, FALSE, "skipped")
            /\ UNCHANGED <<pc, transportOpen>>
       ELSE IF transportOpen[c]
       THEN /\ local' = [local EXCEPT
                           ![c].produced = @ + 1,
                           ![c].chunks = Append(@, output.text),
                           ![c].full_text = Accumulate(@, output.text)]
            /\ out' = <<Msg(c, "text-generation-chunk", output.text)>>
            /\ ev' = EventArg("text-generation-chunk", c, FALSE, "success")
            /\ UNCHANGED <<pc, transportOpen>>
       ELSE StreamAbort(c, "text-generation-chunk")
    /\ UNCHANGED sessionVars
\* the agent engine has no more output: the final marker with the whole text
GenerationEnd(c) ==
    /\ Streaming(c)
    /\ IF transportOpen[c]
       THEN /\ out' = <<[Msg(c, "text-generation-response", local[c].full_text)
                           EXCEPT !.is_complete = TRUE]>>
            /\ pc' = [pc EXCEPT ![c] = "recv"]
            /\ local' = [local EXCEPT ![c] = NoLocal]
            /\ ev' = EventArg("text-generation-response", c, FALSE, "success")
            /\ UNCHANGED transportOpen
       ELSE StreamAbort(c, "text-generation-response")
    /\ UNCHANGED sessionVars
\* a handler that closes a failed generation with what it has accumulated
GenerationFailsTruncated(c) ==
    /\ Streaming(c)
    /\ IF transportOpen[c]
       THEN /\ out' = <<[Msg(c, "text-generation-response", local[c].full_text)
                           EXCEPT !.is_complete = TRUE]>>
            /\ pc' = [pc EXCEPT ![c] = "recv"]
            /\ local' = [local EXCEPT ![c] = NoLocal]
            /\ ev' = Command("text-generation-error", c, FALSE, "raised",
                             local[c].chunks)
            /\ UNCHANGED transportOpen
       ELSE StreamAbort(c, "text-generation-error")
    /\ UNCHANGED sessionVars
\* the agent engine raises: generate_text logs and re-raises, the handler's
\* except block answers with an error envelope; the event keeps the chunks
\* that were sent before the failure
GenerationFails(c) ==
    /\ Streaming(c)
    /\ IF transportOpen[c]
       THEN /\ out' = <<Msg(c, "error", "exception")>>
            /\ pc' = [pc EXCEPT ![c] = "recv"]
            /\ local' = [local EXCEPT ![c] = NoLocal]
            /\ ev' = Command("text-generation-error", c, FALSE, "raised",
                             local[c].chunks)
            /\ UNCHANGED transportOpen
       ELSE StreamAbort(c, "text-generation-error")
    /\ UNCHANGED sessionVars

\* ------------------------------------------------------------ raw audio
\* _handle_raw_audio_data is suspended at the send that follows a pause marker
\* or a speech segment; vad_engine.detect_speech yields byte strings: the two
\* markers, and segments of 16-bit samples
SegmentThreshold == 1024
\* "" stands for a missing or an empty chunk
RawChunks == {"", "bytes"}
\* what the VAD yields: `len` is the length in bytes, `sample` the value of
\* the samples of a segment
VadOutputs ==
    {[kind |-> "pause", len |-> 9, sample |-> 0],
     [kind |-> "resume", len |-> 10, sample |-> 0],
     [kind |-> "segment", len |-> 1024, sample |-> 7],
     [kind |-> "segment", len |-> 1026, sample |-> 7]}
\* np.frombuffer(audio_bytes, dtype=np.int16).astype(np.float32): two bytes a sample
Int16Samples(output) == [i \in 1..(output.len \div 2) |-> Float32(output.sample)]
\* a test that lets a segment of exactly the threshold through
IsSpeechFromThreshold(output) ==
    output.kind = "segment" /\ output.len >= SegmentThreshold
\* "elif len(audio_bytes) > 1024", after the two markers
IsSpeech(output) == output.kind = "segment" /\ output.len > SegmentThreshold
Vadding(c) == pc[c] = "vad_wait"
HandleRawAudioData(c, chunk) ==
    /\ Receiving(c)
    /\ chunk \in RawChunks
    /\ IF chunk = ""
       THEN /\ ev' = Command("raw-audio-data", c, FALSE, "skipped", <<chunk>>)
            /\ UNCHANGED <<pc, local>>
       ELSE /\ pc' = [pc EXCEPT ![c] = "vad_wait"]
            /\ local' = [local EXCEPT ![c] = [NoLocal EXCEPT !.kind = "raw-audio-data"]]
            /\ ev' = Command("raw-audio-data", c, FALSE, "vad", <<chunk>>)
    /\ out' = <<>>
    /\ UNCHANGED <<transportOpen, sessionVars>>
\* a handler that signals a pause twice
PauseSignalTwice(c) ==
    <<Msg(c, "control", "interrupt"), Msg(c, "control", "interrupt")>>
PauseSignal(c) == <<Msg(c, "control", "interrupt")>>
\* the VAD yields one more output
VadOutput(c, output) ==
    /\ Vadding(c)
    /\ output \in VadOutputs
    /\ local[c].produced < MaxOutputs
    /\ received_data_buffers' =
         IF IsSpeech(output)
         THEN [received_data_buffers EXCEPT ![c] = Appended(@, Int16Samples(output))]
         ELSE received_data_buffers
    /\ IF output.kind = "pause" \/ IsSpeech(output)
       THEN IF transportOpen[c]
            THEN /\ out' = IF output.kind = "pause" THEN PauseSignal(c)
                           ELSE <<Msg(c, "control", "mic-audio-end")>>
                 /\ local' = [local EXCEPT ![c].produced = @ + 1]
                 /\ ev' = Command("vad-output", c, FALSE,
                                  IF output.kind = "pause" THEN "pause" ELSE "speech",
                                  <<output>>)
                 /\ UNCHANGED <<pc, transportOpen>>
            ELSE /\ RouterCatch(c, FALSE)
                 /\ local' = [local EXCEPT ![c] = NoLocal]
                 /\ ev' = Command("vad-output", c, TRUE, "peer-gone", <<output>>)
       ELSE /\ out' = <<>>
            /\ local' = [local EXCEPT ![c].produced = @ + 1]
            /\ ev' = Command("vad-output", c, FALSE,
                             IF output.kind = "resume" THEN "resume" ELSE "ignored",
                             <<output>>)
            /\ UNCHANGED <<pc, transportOpen>>
    /\ UNCHANGED <<client_connections, client_contexts, client_adapters, backend_modes,
                   acked_modes, current_conversation_tasks, groupVars, tasks,
                   agent_memory>>
\* the VAD has no more output for the chunk: the handler returns
VadEnd(c) ==
    /\ Vadding(c)
    /\ pc' = [pc EXCEPT ![c] = "recv"]
    /\ local' = [local EXCEPT ![c] = NoLocal]
    /\ out' = <<>>
    /\ ev' = EventArg("raw-audio-end", c, FALSE, "success")
    /\ UNCHANGED <<transportOpen, sessionVars>>

\* ------------------------------------------------------ conversation tasks
\* the turn's generation ran to its end; the engine holds the whole reply
TaskFinish(t) ==
    /\ tasks[t].state = "running"
    /\ tasks' = [tasks EXCEPT ![t] = [NoTaskRec EXCEPT !.state = "done"]]
    /\ agent_memory' = "reply"
    /\ out' = <<>>
    /\ ev' = Event("task-done", tasks[t].owner, FALSE)
    /\ UNCHANGED <<pc, transportOpen, registryVars, groupVars, local>>
\* a task whose cancellation was requested runs and ends with CancelledError
TaskCancelled(t) ==
    /\ tasks[t].state = "cancelling"
    /\ tasks' = [tasks EXCEPT ![t] = [NoTaskRec EXCEPT !.state = "cancelled"]]
    /\ out' = <<>>
    /\ ev' = Event("task-cancelled", tasks[t].owner, FALSE)
    /\ UNCHANGED <<pc, transportOpen, registryVars, groupVars, agent_memory, local>>

Waiting(kind) == {c \in Clients : pc[c] = kind}
AwaitedDone(c) == \A t \in local[c].awaiting : IsDone(t)
DropEntries(T) ==
    [x \in {k \in DOMAIN current_conversation_tasks :
              current_conversation_tasks[k] \notin T}
       |-> current_conversation_tasks[x]]
NewTaskId == CHOOSE t \in FreeTaskIds : \A u \in FreeTaskIds : t <= u
StartTask(c, cct, input) ==
    /\ tasks' = [tasks EXCEPT ![NewTaskId] =
                   [owner |-> c, state |-> "running", input |-> input]]
    /\ current_conversation_tasks' = Put(cct, c, NewTaskId)

\* handle_conversation_trigger (conversation_handler.py), specification-
\* modelled (sections 4.3, 4.4): the buffer is consumed whole at trigger time
\* and becomes the input of the turn; a live task of the client is cancelled
\* and awaited before the new one starts
\* a trigger that starts the new turn without looking at the running one
TriggerCancelsNone(c) == {}
TriggerCancels(c) == OutstandingOf(c)
\* a trigger that leaves the consumed samples in the buffer
TriggerBufferKept(c) == received_data_buffers[c]
TriggerBuffer(c) == <<>>
HandleConversationTrigger(c, type) ==
    /\ Receiving(c)
    /\ type \in ConversationTypes
    /\ Cardinality(FreeTaskIds) > Cardinality(Waiting("trigger_wait"))
    /\ received_data_buffers' = [received_data_buffers EXCEPT ![c] = TriggerBuffer(c)]
    /\ IF TriggerCancels(c) # {}
       THEN /\ tasks' = CancelAll(TriggerCancels(c))
            /\ local' = [local EXCEPT ![c] = [NoLocal EXCEPT
                                              !.awaiting = TriggerCancels(c),
                                              !.kind = type,
                                              !.input = received_data_buffers[c]]]
            /\ pc' = [pc EXCEPT ![c] = "trigger_wait"]
            /\ UNCHANGED current_conversation_tasks
       ELSE /\ StartTask(c, current_conversation_tasks, received_data_buffers[c])
            /\ UNCHANGED <<pc, local>>
    /\ out' = <<>>
    /\ ev' = Event(type, c, FALSE)
    /\ UNCHANGED <<transportOpen, client_connections, client_contexts, client_adapters,
                   backend_modes, acked_modes, groupVars, agent_memory>>
\* the awaited task has ended: the interrupted turn is recorded, the new starts
TriggerResume(c) ==
    /\ pc[c] = "trigger_wait"
    /\ AwaitedDone(c)
    /\ agent_memory' = local[c].heard
    /\ StartTask(c, DropEntries(local[c].awaiting), local[c].input)
    /\ pc' = [pc EXCEPT ![c] = "recv"]
    /\ local' = [local EXCEPT ![c] = NoLocal]
    /\ out' = <<>>
    /\ ev' = Event("trigger-started", c, FALSE)
    /\ UNCHANGED <<transportOpen, client_connections, client_contexts,
                   received_data_buffers, client_adapters, backend_modes, acked_modes, groupVars>>

\* ---------------------------------------------------------------- interrupt
\* _handle_interrupt: "if group and len(group.members) > 1"
\* a test of membership only: a group of one is interrupted as a group
IsGroupInterruptAnyGroup(c) == GetClientGroup(c) # NoGroup
\* the size test off by one: a pair is interrupted as two individuals
IsGroupInterruptOverTwo(c) ==
    GetClientGroup(c) # NoGroup /\ Cardinality(GetGroupMembers(c)) > 2
IsGroupInterrupt(c) ==
    GetClientGroup(c) # NoGroup /\ Cardinality(GetGroupMembers(c)) > 1
\* handle_group_interrupt / handle_individual_interrupt (conversation_handler.py),
\* specification-modelled (sections 4.4, 5): the live task of every member, or
\* of the one client, is cancelled and awaited
GroupInterruptTargets(gid) == UNION {OutstandingOf(m) : m \in MembersOf(gid)}
IndividualInterruptTargets(c) == OutstandingOf(c)
\* after the await: no entry is left for the cancelled tasks, the memory keeps
\* the heard response only, and a group is told of the interruption
\* an interrupt that dissolves the group it has interrupted
InterruptGroupsDissolved(c) ==
    /\ groups' = Pop(groups, local[c].gid)
    /\ client_group_map' = [x \in DOMAIN client_group_map |->
                               IF client_group_map[x] = local[c].gid THEN NoGroup
                               ELSE client_group_map[x]]
\* the interrupts read the group manager for the members and change nothing in it
InterruptGroups(c) == UNCHANGED groupVars
InterruptFinish(c) ==
    /\ InterruptGroups(c)
    /\ current_conversation_tasks' = DropEntries(local[c].awaiting)
    /\ agent_memory' = local[c].heard
    /\ out' = IF local[c].gid # NoGroup
              THEN BroadcastToGroup(ListOf(MembersOf(local[c].gid)), "interrupt-signal",
                                    "conversation-interrupted", "")
              ELSE <<>>
    /\ local' = [local EXCEPT ![c] = NoLocal]

\* a loop that handles an interrupt-signal at once, ending the sender's stream
HandleInterruptMidStream(c, heard) ==
    /\ pc[c] \in {"recv", "gen_wait"} /\ transportOpen[c]
    /\ heard \in HeardTexts
    /\ pc' = [pc EXCEPT ![c] = "recv"]
    /\ local' = [local EXCEPT ![c] = NoLocal]
    /\ out' = <<>>
    /\ ev' = Command("interrupt-signal", c, FALSE, "individual", <<>>)
    /\ UNCHANGED <<transportOpen, sessionVars>>
\* the event tells which of the two interrupts was called and, when there is
\* a task to interrupt, the heard response that was passed on
HandleInterrupt(c, heard) ==
    /\ Receiving(c)
    /\ heard \in HeardTexts
    /\ LET gid == IF IsGroupInterrupt(c) THEN GetClientGroup(c) ELSE NoGroup
           targets == IF IsGroupInterrupt(c) THEN GroupInterruptTargets(gid)
                      ELSE IndividualInterruptTargets(c)
       IN IF targets = {}
          THEN /\ ev' = Command("interrupt-signal", c, FALSE,
                                IF IsGroupInterrupt(c) THEN "group" ELSE "individual",
                                <<>>)
               /\ UNCHANGED <<pc, tasks, local>>
          ELSE /\ tasks' = CancelAll(targets)
               /\ local' = [local EXCEPT ![c] = [NoLocal EXCEPT
                                                 !.awaiting = targets, !.heard = heard,
                                                 !.gid = gid, !.kind = "interrupt-signal"]]
               /\ pc' = [pc EXCEPT ![c] = "interrupt_wait"]
               /\ ev' = Command("interrupt-signal", c, FALSE,
                                IF IsGroupInterrupt(c) THEN "group" ELSE "individual",
                                <<heard>>)
    /\ out' = <<>>
    /\ UNCHANGED <<transportOpen, registryVars, groupVars, agent_memory>>
InterruptResume(c) ==
    /\ pc[c] = "interrupt_wait"
    /\ AwaitedDone(c)
    /\ InterruptFinish(c)
    /\ pc' = [pc EXCEPT ![c] = "recv"]
    /\ ev' = Event("interrupt-done", c, FALSE)
    /\ UNCHANGED <<transportOpen, client_connections, client_contexts,
                   received_data_buffers, client_adapters, backend_modes, acked_modes, tasks>>

\* --------------------------------------------------------------- disconnect
\* websocket_endpoint: the receive loop has ended, by WebSocketDisconnect from
\* receive_json or by an exception that left the loop
\* an endpoint that tears down on WebSocketDisconnect only
LoopEndedByDisconnect(c) == pc[c] = "recv" /\ ~transportOpen[c]
LoopEnded(c) == (pc[c] = "recv" /\ ~transportOpen[c]) \/ pc[c] = "fatal"

\* handle_disconnect, "if group: await handle_group_interrupt(..., '')"
DisconnectStart(c) ==
    /\ LoopEnded(c)
    /\ LET gid == GetClientGroup(c)
           targets == IF gid # NoGroup THEN GroupInterruptTargets(gid) ELSE {}
       IN IF targets = {}
          THEN /\ pc' = [pc EXCEPT ![c] = "disc_leave"]
               /\ UNCHANGED <<tasks, local>>
          ELSE /\ tasks' = CancelAll(targets)
               /\ local' = [local EXCEPT ![c] = [NoLocal EXCEPT
                                                 !.awaiting = targets, !.gid = gid,
                                                 !.kind = "disconnect"]]
               /\ pc' = [pc EXCEPT ![c] = "disc_wait"]
    /\ out' = <<>>
    /\ ev' = Event("disconnect", c, FALSE)
    /\ UNCHANGED <<transportOpen, registryVars, groupVars, agent_memory>>
DisconnectInterruptResume(c) ==
    /\ pc[c] = "disc_wait"
    /\ AwaitedDone(c)
    /\ InterruptFinish(c)
    /\ pc' = [pc EXCEPT ![c] = "disc_leave"]
    /\ ev' = Event("disconnect-interrupted", c, FALSE)
    /\ UNCHANGED <<transportOpen, client_connections, client_contexts,
                   received_data_buffers, client_adapters, backend_modes, acked_modes, tasks>>

\* handle_client_disconnect (chat_group.py), specification-modelled (4.1, 4.2):
\* the client leaves its group and the members that remain are told
ClientDisconnectGroups(c) ==
    LET r == RemoveClient(client_group_map, groups, c)
    IN /\ client_group_map' = r.map
       /\ groups' = r.groups
       /\ out' = UpdatesFrom(1, ListOf(r.affected), r.map, r.groups)
DisconnectLeave(c) ==
    /\ pc[c] = "disc_leave"
    /\ ClientDisconnectGroups(c)
    /\ pc' = [pc EXCEPT ![c] = "disc_cleanup"]
    /\ ev' = Event("disconnect-left", c, FALSE)
    /\ UNCHANGED <<transportOpen, registryVars, tasks, agent_memory, local>>

\* handle_disconnect, "Clean up other client data": every map pops the client;
\* a task that is not done is cancelled, and not awaited
\* a cleanup that resets the backend mode to the default instead of popping it
DisconnectCleanupKeepsMode(c) ==
    /\ client_connections' = client_connections \ {c}
    /\ client_contexts' = Pop(client_contexts, c)
    /\ received_data_buffers' = Pop(received_data_buffers, c)
    /\ client_adapters' = Pop(client_adapters, c)
    /\ backend_modes' = Put(backend_modes, c, DefaultMode)
    /\ acked_modes' = Pop(acked_modes, c)
    /\ IF c \in DOMAIN current_conversation_tasks
       THEN /\ tasks' = CancelAll({current_conversation_tasks[c]})
            /\ current_conversation_tasks' = Pop(current_conversation_tasks, c)
       ELSE UNCHANGED <<tasks, current_conversation_tasks>>
\* a cleanup that empties the audio buffer instead of popping it
DisconnectCleanupClearsBuffer(c) ==
    /\ client_connections' = client_connections \ {c}
    /\ client_contexts' = Pop(client_contexts, c)
    /\ received_data_buffers' = Put(received_data_buffers, c, <<>>)
    /\ client_adapters' = Pop(client_adapters, c)
    /\ backend_modes' = Pop(backend_modes, c)
    /\ acked_modes' = Pop(acked_modes, c)
    /\ IF c \in DOMAIN current_conversation_tasks
       THEN /\ tasks' = CancelAll({current_conversation_tasks[c]})
            /\ current_conversation_tasks' = Pop(current_conversation_tasks, c)
       ELSE UNCHANGED <<tasks, current_conversation_tasks>>
DisconnectCleanup(c) ==
    /\ client_connections' = client_connections \ {c}
    /\ client_contexts' = Pop(client_contexts, c)
    /\ received_data_buffers' = Pop(received_data_buffers, c)
    /\ client_adapters' = Pop(client_adapters, c)
    /\ backend_modes' = Pop(backend_modes, c)
    /\ acked_modes' = Pop(acked_modes, c)
    /\ IF c \in DOMAIN current_conversation_tasks
       THEN /\ tasks' = CancelAll({current_conversation_tasks[c]})
            /\ current_conversation_tasks' = Pop(current_conversation_tasks, c)
       ELSE UNCHANGED <<tasks, current_conversation_tasks>>
DisconnectEnd(c) ==
    /\ pc[c] = "disc_cleanup"
    /\ DisconnectCleanup(c)
    /\ pc' = [pc EXCEPT ![c] = "gone"]
    /\ out' = <<>>
    /\ ev' = Event("disconnected", c, FALSE)
    /\ UNCHANGED <<transportOpen, groupVars, agent_memory, local>>

\* handle_disconnect called for a client id that is not registered (a second
\* call, or an id that never connected): no group, so nothing is awaited and
\* the whole call is one step
DisconnectAgain(c) ==
    /\ pc[c] \in {"gone", "new"}
    /\ GetClientGroup(c) = NoGroup
    /\ ClientDisconnectGroups(c)
    /\ DisconnectCleanup(c)
    /\ ev' = Event("disconnect-again", c, FALSE)
    /\ UNCHANGED <<pc, transportOpen, agent_memory, local>>

\* ----------------------------------------------------------- specification
Next ==
    \/ \E c \in Clients : Register(c)
    \/ \E c \in Clients, stored \in BOOLEAN, sent \in 0..4 : RegisterFails(c, stored, sent)
    \/ \E c \in Clients : TransportClose(c)
    \/ \E c \in Clients, tag \in UnknownTags : RouteUnknown(c, tag)
    \/ \E c \in Clients, audio \in AudioInputs, sendOk \in BOOLEAN :
          HandleAudioData(c, audio, sendOk)
    \/ \E c \in Clients, chunk \in RawChunks : HandleRawAudioData(c, chunk)
    \/ \E c \in Clients, output \in VadOutputs : VadOutput(c, output)
    \/ \E c \in Clients : VadEnd(c)
    \/ \E c \in Clients, raises \in BOOLEAN, sendOk \in BOOLEAN :
          HandleHistoryList(c, raises, sendOk)
    \/ \E c \in Clients : HandleGroupInfo(c)
    \/ \E c \in Clients, target \in Clients,
          operation \in {"add-client-to-group", "remove-client-from-group"} :
          HandleGroupOperation(c, operation, target)
    \/ \E c \in Clients, hasDisplayText \in BOOLEAN : HandleAudioPlayStart(c, hasDisplayText)
    \/ \E c \in Clients, mode \in BackendModes \cup {"bogus"} : HandleSetBackendMode(c, mode)
    \/ \E c \in Clients : HandleGetBackendMode(c)
    \/ \E c \in Clients, expression_id \in ExpressionInputs, outcome \in AdapterOutcomes :
          HandleExpressionCommand(c, expression_id, outcome)
    \/ \E c \in Clients, motion \in MotionInputs, outcome \in AdapterOutcomes :
          HandleMotionCommand(c, motion, outcome)
    \/ \E c \in Clients, fails \in BOOLEAN : GetCharacterState(c, fails)
    \/ \E c \in Clients, prompt \in Prompts : HandleTextGenerationRequest(c, prompt)
    \/ \E c \in Clients, output \in AgentOutputs : GenerationOutput(c, output)
    \/ \E c \in Clients : GenerationEnd(c)
    \/ \E c \in Clients : GenerationFails(c)
    \/ \E c \in Clients, type \in ConversationTypes : HandleConversationTrigger(c, type)
    \/ \E c \in Clients : TriggerResume(c)
    \/ \E c \in Clients, heard \in HeardTexts : HandleInterrupt(c, heard)
    \/ \E c \in Clients : InterruptResume(c)
    \/ \E t \in TaskIds : TaskFinish(t)
    \/ \E t \in TaskIds : TaskCancelled(t)
    \/ \E c \in Clients : DisconnectStart(c)
    \/ \E c \in Clients : DisconnectInterruptResume(c)
    \/ \E c \in Clients : DisconnectLeave(c)
    \/ \E c \in Clients : DisconnectEnd(c)
    \/ \E c \in Clients : DisconnectAgain(c)

Spec == Init /\ [][Next]_vars

\* the steps every specification below shares: connecting and the teardown
\* (the teardown's wait for cancelled tasks belongs to the specifications that
\* have both groups and tasks)
Lifecycle(C) ==
    \/ \E c \in C : Register(c)
    \/ \E c \in C : TransportClose(c)
    \/ \E c \in C : DisconnectStart(c)
    \/ \E c \in C : DisconnectLeave(c)
    \/ \E c \in C : DisconnectEnd(c)
TaskSteps ==
    \/ \E t \in TaskIds : TaskFinish(t)
    \/ \E t \in TaskIds : TaskCancelled(t)
Conversation(C) ==
    \/ \E c \in C, type \in ConversationTypes : HandleConversationTrigger(c, type)
    \/ \E c \in C : TriggerResume(c)
    \/ \E c \in C, heard \in HeardTexts : HandleInterrupt(c, heard)
    \/ \E c \in C : InterruptResume(c)
    \/ \E c \in C : DisconnectInterruptResume(c)
GroupOps(C) ==
    \E c \in C, target \in C,
       operation \in {"add-client-to-group", "remove-client-from-group"} :
       HandleGroupOperation(c, operation, target)

\* two clients are enough where a claim is about one session or one pair
Two == {"A", "B"}

\* conversation turns, interrupts and groups
NextConv == Lifecycle(Two) \/ TaskSteps \/ Conversation(Two) \/ GroupOps(Two)
SpecConv == Init /\ [][NextConv]_vars

\* groups and broadcasts
NextGroup ==
    \/ Lifecycle(Clients) \/ GroupOps(Clients)
    \/ \E c \in Clients : HandleGroupInfo(c)
    \/ \E c \in Clients, hasDisplayText \in BOOLEAN : HandleAudioPlayStart(c, hasDisplayText)
SpecGroup == Init /\ [][NextGroup]_vars

\* the router and the handlers without a task
NextRoute ==
    \/ Lifecycle(Two)
    \/ \E c \in Two, tag \in UnknownTags : RouteUnknown(c, tag)
    \/ \E c \in Two, audio \in AudioInputs, sendOk \in BOOLEAN :
          HandleAudioData(c, audio, sendOk)
    \/ \E c \in Two, raises \in BOOLEAN, sendOk \in BOOLEAN :
          HandleHistoryList(c, raises, sendOk)
    \/ \E c \in Two, mode \in BackendModes \cup {"bogus"} : HandleSetBackendMode(c, mode)
SpecRoute == Init /\ [][NextRoute]_vars

\* audio buffering and the turns that consume it
NextAudio ==
    \/ Lifecycle(Two) \/ TaskSteps
    \/ \E c \in Two, audio \in AudioInputs, sendOk \in BOOLEAN :
          HandleAudioData(c, audio, sendOk)
    \/ \E c \in Two, type \in ConversationTypes : HandleConversationTrigger(c, type)
    \/ \E c \in Two : TriggerResume(c)
SpecAudio == Init /\ [][NextAudio]_vars

\* the whole teardown, with every kind of session state, for two clients
NextDisc ==
    \/ Lifecycle(Two) \/ TaskSteps
    \/ \E c \in Two, target \in Two : HandleGroupOperation(c, "add-client-to-group", target)
    \/ \E c \in Two : Receiving(c) /\ received_data_buffers[c] = <<>>
                        /\ HandleAudioData(c, [kind |-> "list", samples |-> <<1>>], TRUE)
    \/ \E c \in Two : c \notin DOMAIN client_adapters /\ HandleSetBackendMode(c, "orphiq")
    \/ \E c \in Two : HandleConversationTrigger(c, "text-input")
    \/ \E c \in Two : TriggerResume(c)
    \/ \E c \in Two : DisconnectInterruptResume(c)
    \/ \E c \in Two : DisconnectAgain(c)
SpecDisc == Init /\ [][NextDisc]_vars

\* the endpoint from accept to the end of the teardown: connections that fail
\* while they are set up, loops that end by disconnect or by a failed error
\* send, and teardowns that wait for the turns of a group.  The endpoint's
\* coroutine and a task whose cancellation was requested are scheduled by the
\* event loop until they end, which is the fairness assumed here
NextEndpoint ==
    \/ Lifecycle(Two) \/ TaskSteps
    \/ \E c \in Two, stored \in BOOLEAN, sent \in 0..4 : RegisterFails(c, stored, sent)
    \/ \E c \in Two, raises \in BOOLEAN, sendOk \in BOOLEAN :
          HandleHistoryList(c, raises, sendOk)
    \/ \E c \in Two, target \in Two : HandleGroupOperation(c, "add-client-to-group", target)
    \/ \E c \in Two : HandleConversationTrigger(c, "text-input")
    \/ \E c \in Two : TriggerResume(c)
    \/ \E c \in Two : DisconnectInterruptResume(c)
FairEndpoint ==
    /\ \A c \in Two : /\ WF_vars(DisconnectStart(c))
                       /\ WF_vars(DisconnectInterruptResume(c))
                       /\ WF_vars(DisconnectLeave(c))
                       /\ WF_vars(DisconnectEnd(c))
    /\ \A t \in TaskIds : WF_vars(TaskCancelled(t))
SpecEndpoint == Init /\ [][NextEndpoint]_vars /\ FairEndpoint

\* backend modes, and the expression command as the user of the adapter
NextMode ==
    \/ Lifecycle(Two)
    \/ \E c \in Two, mode \in BackendModes \cup {"bogus"} : HandleSetBackendMode(c, mode)
    \/ \E c \in Two : HandleGetBackendMode(c)
    \/ \E c \in Two, expression_id \in ExpressionInputs, outcome \in AdapterOutcomes :
          HandleExpressionCommand(c, expression_id, outcome)
SpecMode == Init /\ [][NextMode]_vars

\* the operations of one adapter: expression, motion and character state; the
\* second client has expressions only, which is enough to tell the adapters apart
NextAdapter ==
    \/ Lifecycle(Two)
    \/ \E c \in Two : HandleSetBackendMode(c, "orphiq")
    \/ \E c \in Two : HandleGetBackendMode(c)
    \/ \E c \in Two, expression_id \in ExpressionInputs, outcome \in AdapterOutcomes :
          HandleExpressionCommand(c, expression_id, outcome)
    \/ \E motion \in MotionInputs, outcome \in AdapterOutcomes :
          HandleMotionCommand("A", motion, outcome)
    \/ \E c \in Two, fails \in BOOLEAN : GetCharacterState(c, fails)
SpecAdapter == Init /\ [][NextAdapter]_vars

\* text generation streams
NextStream ==
    \/ Lifecycle(Two)
    \/ \E c \in Two, mode \in {"orphiq", "autonomous"} : HandleSetBackendMode(c, mode)
    \/ \E c \in Two, prompt \in Prompts : HandleTextGenerationRequest(c, prompt)
    \/ \E c \in Two, output \in AgentOutputs : GenerationOutput(c, output)
    \/ \E c \in Two : GenerationEnd(c)
    \/ \E c \in Two : GenerationFails(c)
SpecStream == Init /\ [][NextStream]_vars

\* histories, configs and backgrounds
NextHistory ==
    \/ Lifecycle(Two)
    \/ \E c \in Two, raises \in BOOLEAN : HandleHistoryList(c, raises, TRUE)
    \/ \E c \in Two, history_uid \in HistoryIds, outcome \in HistoryOutcomes :
          HandleFetchHistory(c, history_uid, outcome)
    \/ \E c \in Two, outcome \in HistoryOutcomes : HandleCreateHistory(c, outcome)
    \/ \E c \in Two, history_uid \in HistoryIds, outcome \in HistoryOutcomes :
          HandleDeleteHistory(c, history_uid, outcome)
    \/ \E c \in Two, tag \in {"fetch-configs", "fetch-backgrounds"}, raises \in BOOLEAN :
          HandleFetchList(c, tag, raises)
    \/ \E c \in Two, file \in ConfigFiles, raises \in BOOLEAN :
          HandleConfigSwitch(c, file, raises)
SpecHistory == Init /\ [][NextHistory]_vars

\* the two kinds of generation side by side: conversation turns, which run as
\* background tasks, and text-generation streams, which run inside the handler
NextFlight ==
    \/ Lifecycle(Two) \/ TaskSteps
    \/ \E c \in Two : HandleConversationTrigger(c, "text-input")
    \/ \E c \in Two : TriggerResume(c)
    \/ \E c \in Two : HandleTextGenerationRequest(c, "Say hello")
    \/ \E c \in Two, output \in AgentOutputs : GenerationOutput(c, output)
    \/ \E c \in Two : GenerationEnd(c)
    \/ \E c \in Two : HandleGetBackendMode(c)
SpecFlight == Init /\ [][NextFlight]_vars

\* interrupts of clients in no group, in a group of one and in a pair, with
\* turns started by text-input
NextInterrupt ==
    \/ Lifecycle(Two) \/ TaskSteps \/ GroupOps(Two)
    \/ \E c \in Two : HandleConversationTrigger(c, "text-input")
    \/ \E c \in Two : TriggerResume(c)
    \/ \E c \in Two, heard \in HeardTexts : HandleInterrupt(c, heard)
    \/ \E c \in Two : InterruptResume(c)
    \/ \E c \in Two : DisconnectInterruptResume(c)
SpecInterrupt == Init /\ [][NextInterrupt]_vars

\* microphone chunks of two clients, those of the first with a sample that is
\* not a float32 value among them, and the first turn of a client, which
\* drains its buffer
NextMic ==
    \/ Lifecycle(Two)
    \/ \E audio \in AudioInputs \cup UnroundedAudioInputs, sendOk \in BOOLEAN :
          HandleAudioData("A", audio, sendOk)
    \/ \E audio \in AudioInputs : HandleAudioData("B", audio, TRUE)
    \/ \E c \in Two : /\ c \notin DOMAIN current_conversation_tasks
                        /\ HandleConversationTrigger(c, "mic-audio-end")
SpecMic == Init /\ [][NextMic]_vars

\* raw audio through the VAD, next to microphone chunks
NextVad ==
    \/ Lifecycle(Two)
    \/ \E c \in Two : HandleAudioData(c, [kind |-> "list", samples |-> <<1>>], TRUE)
    \/ \E c \in Two, chunk \in RawChunks :
          /\ c \in DOMAIN received_data_buffers
          /\ Len(received_data_buffers[c]) < MaxBuf
          /\ HandleRawAudioData(c, chunk)
    \/ \E c \in Two, output \in VadOutputs : VadOutput(c, output)
    \/ \E c \in Two : VadEnd(c)
SpecVad == Init /\ [][NextVad]_vars

\* the text-generation streams of one client next to the conversation turns
\* and the interrupts of two
NextStreamInterrupt ==
    \/ Lifecycle(Two) \/ TaskSteps
    \/ \E c \in Two : HandleConversationTrigger(c, "text-input")
    \/ \E c \in Two : TriggerResume(c)
    \/ HandleTextGenerationRequest("A", "Say hello")
    \/ \E output \in AgentOutputs : GenerationOutput("A", output)
    \/ GenerationEnd("A")
    \/ GenerationFails("A")
    \/ \E c \in Two : HandleInterrupt(c, "ok")
    \/ \E c \in Two : InterruptResume(c)
SpecStreamInterrupt == Init /\ [][NextStreamInterrupt]_vars

\* ================================================================== claims
GroupsOf(c) == {g \in DOMAIN groups : c \in groups[g].members}
TasksIn(state) == {t \in TaskIds : tasks[t].state = state}

\* C1: a client never has two live conversation tasks; a task whose
\* cancellation was requested stays live until it has ended, so a trigger that
\* finds a running task starts the new one only after the old one has ended,
\* and the entry of the client then refers to the new task
C1_SingleFlight ==
    \A c \in Clients :
        /\ Cardinality(LiveTasksOf(c)) <= 1
        /\ (ev.op = "trigger-started" /\ ev.c = c) =>
               /\ c \in DOMAIN current_conversation_tasks
               /\ tasks[current_conversation_tasks[c]].state = "running"
               /\ LiveTasksOf(c) = {current_conversation_tasks[c]}
\* a trigger met a running task: that task ended cancelled and the new one runs
C1_Witness ==
    /\ ev.op = "trigger-started"
    /\ TasksIn("cancelled") # {}
    /\ \E t \in TaskIds : tasks[t].owner = ev.c /\ tasks[t].state = "running"

\* C2: an interrupt-signal of a member of a group of more than one member, with
\* a generation active in the group, requests the cancellation of the active
\* task of every member; when the handler goes on after the await, those tasks
\* have ended cancelled and the memory of every member holds the heard
\* response the interrupt carried
C2_GroupInterrupt ==
    [][\A c \in Clients :
         /\ ( /\ ev'.op = "interrupt-signal" /\ ev'.c = c
              /\ Cardinality(GetGroupMembers(c)) > 1
              /\ GroupInterruptTargets(GetClientGroup(c)) # {} )
            => /\ pc'[c] = "interrupt_wait"
               /\ local'[c].gid = GetClientGroup(c)
               /\ \A m \in GetGroupMembers(c) : \A t \in OutstandingOf(m) :
                      tasks'[t].state = "cancelling" /\ t \in local'[c].awaiting
         /\ ( /\ ev'.op = "interrupt-done" /\ ev'.c = c
              /\ local[c].gid # NoGroup )
            => /\ \A t \in local[c].awaiting : tasks'[t].state = "cancelled"
               /\ \A m \in MembersOf(local[c].gid) :
                      /\ MemoryOf(m)' = local[c].heard
                      /\ \A t \in local[c].awaiting :
                             ~(m \in DOMAIN current_conversation_tasks'
                               /\ current_conversation_tasks'[m] = t)
      ]_vars
\* both members of a pair were generating when one of them interrupted with "ok"
C2_Witness ==
    /\ ev.op = "interrupt-done"
    /\ Cardinality(GetGroupMembers(ev.c)) = 2
    /\ Cardinality(TasksIn("cancelled")) = 2
    /\ \A m \in GetGroupMembers(ev.c) : MemoryOf(m) = "ok"
    /\ Len(out) = 2

\* C3: a client is in at most one group, and it is in the member set of group
\* g exactly when the reverse map sends it to g; the reverse map holds the
\* empty string or the id of an existing group
C3_MembershipConsistent ==
    \A c \in Clients :
        /\ Cardinality(GroupsOf(c)) <= 1
        /\ \A g \in DOMAIN groups :
               c \in groups[g].members <=> (c \in DOMAIN client_group_map /\ client_group_map[c] = g)
        /\ c \in DOMAIN client_group_map =>
               client_group_map[c] \in DOMAIN groups \cup {NoGroup}
\* a group of three lost a member that was not its owner
C3_Witness ==
    /\ ev.op = "disconnect-left"
    /\ ev.c \notin DOMAIN client_group_map
    /\ \E g \in DOMAIN groups :
          /\ Cardinality(groups[g].members) = 2
          /\ Len(out) = 2
          /\ \A i \in 1..Len(out) :
                out[i].type = "group-update" /\ out[i].members = groups[g].members

LoopOver(c) == pc[c] \in {"fatal", "disc_wait", "disc_leave", "disc_cleanup", "gone"}
IsPrefix(s, t) == Len(s) <= Len(t) /\ SubSeq(t, 1, Len(s)) = s

C5_UnknownTagDropped ==
    [][ev'.op = "unknown" =>
          /\ out' = <<>>
          /\ UNCHANGED sessionVars
          /\ pc'[ev'.c] = "recv" /\ transportOpen'[ev'.c]
      ]_vars
\* "foo-bar" arrived at a session that holds audio and has chosen a backend mode
C5_Witness ==
    /\ ev.op = "unknown" /\ ev.arg = "foo-bar"
    /\ received_data_buffers[ev.c] # <<>>
    /\ ev.c \in DOMAIN backend_modes
    /\ pc[ev.c] = "recv" /\ transportOpen[ev.c]

\* C6: when a handler that cancelled a task returns, the task has ended and
\* no entry of the client refers to a task that has not: after the interrupt
\* and trigger handlers for the tasks they awaited, after handle_disconnect
\* for every task of the client
C6_CancelledTaskEnded ==
    [][\A c \in Clients :
         /\ (ev'.c = c /\ ev'.op \in {"interrupt-done", "trigger-started"}) =>
                \A t \in local[c].awaiting :
                    /\ tasks'[t].state \in {"done", "cancelled"}
                    /\ \A k \in DOMAIN current_conversation_tasks' :
                           current_conversation_tasks'[k] # t
         /\ (ev'.c = c /\ ev'.op = "disconnected") =>
                /\ \A t \in TaskIds : tasks'[t].owner = c =>
                       tasks'[t].state \in {"done", "cancelled"}
                /\ c \notin DOMAIN current_conversation_tasks'
      ]_vars

\* C7: right after a conversation trigger the client's buffer is empty and the
\* samples it held are the input of the turn; no other step takes samples out
\* of a buffer, so a turn drains the buffer once and as a whole
C7_BufferDrainedByTrigger ==
    [][\A c \in DOMAIN received_data_buffers \cap DOMAIN received_data_buffers' :
         /\ (ev'.op \in ConversationTypes /\ ev'.c = c) =>
                /\ received_data_buffers'[c] = <<>>
                /\ \/ \E t \in TaskIds : /\ tasks[t].state = "none"
                                         /\ tasks'[t].owner = c
                                         /\ tasks'[t].input = received_data_buffers[c]
                   \/ local'[c].input = received_data_buffers[c]
         /\ ~IsPrefix(received_data_buffers[c], received_data_buffers'[c]) =>
                ev'.op \in ConversationTypes /\ ev'.c = c
      ]_vars
\* mic-audio-end consumed a buffer of two samples
C7_Witness ==
    /\ ev.op = "mic-audio-end"
    /\ received_data_buffers[ev.c] = <<>>
    /\ \E t \in TaskIds : /\ tasks[t].owner = ev.c /\ tasks[t].state = "running"
                          /\ tasks[t].input = <<1, 1>>

\* C8: the echo broadcast of audio-play-start reaches every member of the
\* sender's group but the sender whose transport is registered and open,
\* whatever the state of the other members, and nobody else
Reachable(m) == m \in client_connections /\ transportOpen[m]
C8_BroadcastIsolation ==
    (ev.op = "audio-play-start" /\ ev.arg # "" /\ Cardinality(GetGroupMembers(ev.c)) > 1) =>
        /\ \A m \in GetGroupMembers(ev.c) \ {ev.c} :
               Reachable(m) => \E i \in 1..Len(out) : out[i] = Msg(m, "audio", "display_text")
        /\ \A i \in 1..Len(out) :
               out[i].to \in GetGroupMembers(ev.c) \ {ev.c} /\ Reachable(out[i].to)
\* in a group of three the first listed member has gone and the next is served
C8_Witness ==
    /\ ev.op = "audio-play-start" /\ ev.arg # "" /\ ev.c = "C"
    /\ GetGroupMembers("C") = {"A", "B", "C"}
    /\ ~transportOpen["A"] /\ "A" \in client_connections
    /\ out = <<Msg("B", "audio", "display_text")>>

\* C9: once handle_disconnect has returned for a client, no registry map and
\* no member set holds the client, and no task of the client is still running
\* without a cancellation request
Absent(c) ==
    /\ c \notin client_connections
    /\ c \notin DOMAIN client_contexts
    /\ c \notin DOMAIN received_data_buffers
    /\ c \notin DOMAIN client_adapters
    /\ c \notin DOMAIN backend_modes
    /\ c \notin DOMAIN current_conversation_tasks
    /\ GroupsOf(c) = {}
C9_DisconnectRemovesClient ==
    \A c \in Clients :
        (pc[c] = "gone" \/ (ev.c = c /\ ev.op \in {"disconnected", "disconnect-again"})) =>
            /\ Absent(c)
            /\ \A t \in TaskIds : tasks[t].owner = c => tasks[t].state # "running"
\* the client left while its turn was generating: the task is being cancelled
C9_Witness ==
    /\ ev.op = "disconnected" /\ pc[ev.c] = "gone"
    /\ \E t \in TaskIds : tasks[t].owner = ev.c /\ tasks[t].state = "cancelling"
    /\ Absent(ev.c)
    /\ \E d \in DOMAIN client_adapters : d \in DOMAIN received_data_buffers

\* C10: handle_disconnect for a client id that is not registered sends
\* nothing and changes no registry map, no group and no task
C10_DisconnectIdempotent ==
    [][ev'.op = "disconnect-again" =>
          /\ out' = <<>>
          /\ UNCHANGED <<registryVars, groupVars, tasks, agent_memory>>
      ]_vars
\* the second call came while another client was registered with audio buffered
C10_Witness ==
    /\ ev.op = "disconnect-again" /\ pc[ev.c] = "gone"
    /\ \E d \in DOMAIN received_data_buffers : received_data_buffers[d] # <<>>
    /\ out = <<>>

\* C11: while handle_disconnect(c) is suspended (it waits for the tasks it
\* cancelled, or handle_client_disconnect is sending group-update to the
\* members that remain), client c is in all of connection, context, buffer and
\* group reverse map, or in none of them
InAllSessionState(c) ==
    /\ c \in client_connections
    /\ c \in DOMAIN client_contexts
    /\ c \in DOMAIN received_data_buffers
    /\ c \in DOMAIN client_group_map
InNoSessionState(c) ==
    /\ c \notin client_connections
    /\ c \notin DOMAIN client_contexts
    /\ c \notin DOMAIN received_data_buffers
    /\ c \notin DOMAIN client_group_map
DisconnectSuspended(c) ==
    \/ pc[c] = "disc_wait"
    \/ pc[c] = "disc_cleanup" /\ ev.op = "disconnect-left" /\ ev.c = c /\ out # <<>>
TearingDown(c) == pc[c] \in {"disc_wait", "disc_leave", "disc_cleanup", "gone"}
C12_TornDownOnce ==
    /\ [][\A c \in Clients :
            /\ (ev'.op = "disconnect" /\ ev'.c = c) => LoopEnded(c) /\ ~TearingDown(c)
            /\ (~TearingDown(c) /\ TearingDown(c)') => (ev'.op = "disconnect" /\ ev'.c = c)
            /\ TearingDown(c) => TearingDown(c)'
         ]_vars
    /\ \A c \in Clients :
           (pc[c] = "fatal" \/ (pc[c] = "recv" /\ ~transportOpen[c]))
               ~> (pc[c] = "gone" /\ InNoSessionState(c))
\* handle_disconnect is called for a connection whose handle_new_connection
\* failed before anything was stored, after another connection that had
\* registered was torn down
C12_Witness ==
    /\ ev.op = "disconnect" /\ pc[ev.c] = "disc_leave"
    /\ ev.c \notin DOMAIN client_contexts
    /\ \E d \in Clients : d # ev.c /\ pc[d] = "gone"

\* C13: a set-backend-mode that is answered with backend-mode-set leaves the
\* client with an adapter that is not the instance it had before and whose
\* character state shows no expression and no motion; an expression or motion
\* command runs on the instance the map holds, never on a replaced one
Acknowledged(c) ==
    \E i \in 1..Len(out) : out[i].to = c /\ out[i].type = "backend-mode-set"
C13_FreshAdapterAfterSwitch ==
    [][\A c \in Clients :
         /\ (ev'.op = "set-backend-mode" /\ ev'.c = c /\ Acknowledged(c)') =>
                /\ c \in DOMAIN client_adapters'
                /\ CharacterState(client_adapters'[c]) =
                       [current_expression |-> None, current_motion |-> None]
                /\ c \in DOMAIN client_adapters =>
                       client_adapters'[c].instance # client_adapters[c].instance
         /\ ( /\ ev'.op \in {"expression-command", "motion-command"} /\ ev'.c = c
              /\ c \in DOMAIN client_adapters /\ c \in DOMAIN client_adapters' ) =>
                client_adapters'[c].instance = client_adapters[c].instance
      ]_vars
\* the acknowledged switch replaced an adapter, while the other client's
\* adapter keeps the expression it recorded
C13_Witness ==
    /\ ev.op = "set-backend-mode" /\ Acknowledged(ev.c)
    /\ client_adapters[ev.c] = NewAdapter(2)
    /\ \E d \in DOMAIN client_adapters : d # ev.c /\ client_adapters[d].expression = <<3>>

C15_InvalidModeRejected ==
    [][(ev'.op = "set-backend-mode" /\ ev'.arg \notin BackendModes) =>
          /\ Len(out') = 1
          /\ out'[1].to = ev'.c /\ out'[1].type = "error"
          /\ UNCHANGED <<backend_modes, client_adapters>>
      ]_vars
\* "bogus" reached a client that had switched to "orphiq" and whose adapter
\* had recorded an expression
C15_Witness ==
    /\ ev.op = "set-backend-mode" /\ ev.arg = "bogus"
    /\ ev.c \in DOMAIN backend_modes /\ backend_modes[ev.c] = "orphiq"
    /\ ev.c \in DOMAIN client_adapters /\ client_adapters[ev.c].expression = <<0>>
    /\ out = <<Msg(ev.c, "error", "Invalid backend mode")>>

\* C16: get-backend-mode is answered with exactly one backend-mode envelope
\* that carries the mode of the client's latest set-backend-mode that was
\* acknowledged, or "orphiq" if none was, and it changes no state
C16_ReportsAcknowledgedMode ==
    [][ev'.op = "get-backend-mode" =>
          /\ out' = <<Msg(ev'.c, "backend-mode", ModeOf(acked_modes, ev'.c))>>
          /\ UNCHANGED sessionVars
      ]_vars

\* C17: the character state of a client's adapter shows as expression the id
\* of the latest expression-command that succeeded and as motion the group,
\* index and loop flag of the latest motion-command that succeeded: a command
\* that succeeds records its value, one that fails or is refused records
\* nothing, and no other step but a replacement or removal of the adapter
\* changes what is shown; get_character_state changes nothing, and an
\* expression-command leaves every backend mode as it was
RecordedState(adapters, c) ==
    IF c \in DOMAIN adapters THEN CharacterState(adapters[c])
    ELSE CharacterState(NewAdapter(1))
C17_StateFollowsTriggers ==
    [][\A c \in Clients :
         LET before == RecordedState(client_adapters, c)
             after == RecordedState(client_adapters', c)
         IN /\ (ev'.c = c /\ ev'.op = "expression-command") =>
                   /\ after.current_expression =
                          IF ev'.arg = "success" THEN ev'.input
                          ELSE before.current_expression
                   /\ after.current_motion = before.current_motion
                   /\ UNCHANGED backend_modes
            /\ (ev'.c = c /\ ev'.op = "motion-command") =>
                   /\ after.current_motion =
                          IF ev'.arg = "success"
                          THEN <<[group |-> ev'.input[1].motion_group[1],
                                  index |-> ev'.input[1].motion_index[1],
                                  loop |-> ev'.input[1].loop]>>
                          ELSE before.current_motion
                   /\ after.current_expression = before.current_expression
            /\ (ev'.c = c /\ ev'.op = "get-character-state") =>
                   /\ out' = <<>>
                   /\ UNCHANGED <<pc, transportOpen, sessionVars, local>>
            /\ after # before =>
                   /\ ev'.c = c
                   /\ ev'.op \in {"expression-command", "motion-command",
                                  "set-backend-mode", "disconnected"}
      ]_vars
\* expression 3 and a looping motion were recorded, then a trigger of
\* expression 0 failed: the state still shows expression 3
C17_Witness ==
    /\ ev.op = "expression-command" /\ ev.arg = "error" /\ ev.input = <<0>>
    /\ ev.c \in DOMAIN client_adapters
    /\ CharacterState(client_adapters[ev.c]) =
           [current_expression |-> <<3>>,
            current_motion |-> <<[group |-> "tap", index |-> 1, loop |-> TRUE]>>]

\* C18: no call of an adapter operation (generate_text, trigger_expression,
\* trigger_motion, get_character_state) ends with an exception leaving the
\* adapter; a failure inside it is returned as an outcome
AdapterCallSteps ==
    {"expression-command", "motion-command", "get-character-state",
     "text-generation-chunk", "text-generation-response", "text-generation-error"}
C18_NoExceptionLeavesAdapter ==
    ev.op \in AdapterCallSteps => ev.arg # "raised"

\* C19: when the adapter returns status "error" for an expression-command or
\* a motion-command, the sender is sent an envelope of type error and no
\* acknowledgement
C19_AdapterErrorSurfaced ==
    (ev.op \in {"expression-command", "motion-command"} /\ ev.arg = "error") =>
        /\ \E i \in 1..Len(out) : out[i].to = ev.c /\ out[i].type = "error"
        /\ \A i \in 1..Len(out) : out[i].type \notin {"expression-ack", "motion-ack"}

\* C20: while a text-generation-request is served, every chunk the adapter
\* yields is sent to the client as one text-generation-chunk envelope with
\* is_complete false, in the order of production; a generation that ends
\* without a failure is closed by one text-generation-response envelope with
\* is_complete true whose text is the concatenation of the chunks in that
\* order, after which the request is over; chunk and response envelopes are
\* sent by the steps of a request that is being served and by no other
RECURSIVE Concat(_)
Concat(texts) == IF texts = <<>> THEN "" ELSE Head(texts) \o Concat(Tail(texts))
C20_ChunksThenFinalMarker ==
    [][/\ \A c \in Clients :
            /\ (ev'.c = c /\ ev'.op = "text-generation-chunk" /\ ~ev'.exc) =>
                   /\ Len(local'[c].chunks) = Len(local[c].chunks) + 1
                   /\ IsPrefix(local[c].chunks, local'[c].chunks)
                   /\ out' = <<Msg(c, "text-generation-chunk",
                                   local'[c].chunks[Len(local'[c].chunks)])>>
                   /\ Streaming(c)'
            /\ (ev'.c = c /\ ev'.op = "text-generation-response" /\ ~ev'.exc) =>
                   /\ out' = <<[Msg(c, "text-generation-response", Concat(local[c].chunks))
                                  EXCEPT !.is_complete = TRUE]>>
                   /\ ~Streaming(c)' /\ local'[c] = NoLocal
       /\ \A i \in 1..Len(out') :
            out'[i].type \in {"text-generation-chunk", "text-generation-response"} =>
                /\ Streaming(out'[i].to) /\ ev'.c = out'[i].to
                /\ out'[i].is_complete = (out'[i].type = "text-generation-response")
      ]_vars
\* the generation yielded "Hello, " and "world!" and was closed by the whole text
C20_Witness ==
    /\ ev.op = "text-generation-response" /\ ~ev.exc
    /\ out = <<[Msg(ev.c, "text-generation-response", "Hello, world!")
                  EXCEPT !.is_complete = TRUE]>>
    /\ pc[ev.c] = "recv"

\* C21: when the generation behind a text-generation-request fails after k
\* chunks (k >= 0), the k chunks have each been sent as a chunk envelope, the
\* failing step sends the client one error envelope and nothing else, and the
\* request is over: no later step of it can send a text-generation-response,
\* and a response is never sent by the step on which a generation failed
C21_TruncationIsAnError ==
    [][\A c \in Clients :
         /\ (ev'.c = c /\ ev'.op = "text-generation-error" /\ ~ev'.exc) =>
                /\ Streaming(c) /\ ev'.input = local[c].chunks
                /\ Len(out') = 1 /\ out'[1].to = c /\ out'[1].type = "error"
                /\ ~out'[1].is_complete
                /\ ~Streaming(c)' /\ local'[c] = NoLocal
         /\ (\E i \in 1..Len(out') :
                out'[i].to = c /\ out'[i].type = "text-generation-response") =>
                /\ Streaming(c) /\ ev'.op = "text-generation-response"
      ]_vars
\* a generation failed after the chunk "Hello, " and was answered by an error
C21_Witness ==
    /\ ev.op = "text-generation-error" /\ ~ev.exc
    /\ ev.input = <<"Hello, ">>
    /\ out = <<Msg(ev.c, "error", "exception")>>
    /\ pc[ev.c] = "recv"

\* C22: every request with a known tag that expects a reply (history, config,
\* background, group-info, expression, motion, text-generation and backend-mode
\* requests) is answered to its sender: when the handler of such a request has
\* returned to the receive loop, its last step has sent the sender a success
\* or an error envelope, whatever the payload was
RequestEndSteps ==
    {"fetch-history-list", "fetch-and-set-history", "create-new-history",
     "delete-history", "fetch-configs", "switch-config", "fetch-backgrounds",
     "request-group-info", "expression-command", "motion-command",
     "text-generation-request", "text-generation-response",
     "text-generation-error", "set-backend-mode", "get-backend-mode"}
C22_EveryRequestAnswered ==
    (ev.op \in RequestEndSteps /\ pc[ev.c] = "recv") =>
        \E i \in 1..Len(out) : out[i].to = ev.c

\* C24: when a history operation (fetch-and-set-history, create-new-history,
\* delete-history) fails, because the history collaborator reports failure or
\* raises, the active history id of the session is after the operation what
\* it was before it
HistoryOps == {"fetch-and-set-history", "create-new-history", "delete-history"}
HistoryFailures == {"failed", "store-raises", "memory-raises"}
C24_FailedHistoryOpKeepsId ==
    [][\A c \in Clients :
         (ev'.c = c /\ ev'.op \in HistoryOps /\ ev'.arg \in HistoryFailures) =>
             client_contexts'[c].history_uid = client_contexts[c].history_uid
      ]_vars

\* C23: an expression-command without expression_id, or a motion-command
\* without motion_group or without motion_index, is answered by exactly one
\* error envelope that names the missing field; no adapter is created or
\* invoked for it, no acknowledgement is sent, and the character state of the
\* client's adapter is what it was
C23_MissingFieldRejected ==
    [][\A c \in Clients :
         /\ (ev'.c = c /\ ev'.op = "expression-command" /\ ev'.input = None) =>
                /\ out' = <<Msg(c, "error", "expression_id is required")>>
                /\ client_adapters' = client_adapters
                /\ ev'.arg = "missing" /\ ~ev'.exc
         /\ (ev'.c = c /\ ev'.op = "motion-command" /\ MotionMissing(ev'.input[1])) =>
                /\ out' = <<Msg(c, "error", "motion_group and motion_index are required")>>
                /\ client_adapters' = client_adapters
                /\ ev'.arg = "missing" /\ ~ev'.exc
      ]_vars
\* a motion-command without motion_index was rejected for a client that has
\* no adapter, and none was made
C23_Witness ==
    /\ ev.op = "motion-command" /\ ev.arg = "missing"
    /\ ev.input = <<[motion_group |-> <<"idle">>, motion_index |-> None, loop |-> FALSE]>>
    /\ out = <<Msg(ev.c, "error", "motion_group and motion_index are required")>>
    /\ ev.c \notin DOMAIN client_adapters
    /\ ModeOf(backend_modes, ev.c) = "orphiq"

\* C25: after a successful handle_new_connection for client c, c is in the
\* no-group state (its reverse-map entry is the empty string) with an empty
\* audio buffer, and the registration has sent c, in this order, the
\* connection acknowledgement, then the model descriptor that carries c's
\* client id, and as its last message the start-capture control signal
C25_RegisteredAndGreeted ==
    (ev.op = "register" /\ ~ev.exc) =>
        /\ ev.c \in client_connections
        /\ client_group_map[ev.c] = NoGroup
        /\ received_data_buffers[ev.c] = <<>>
        /\ \A i \in 1..Len(out) : out[i].to = ev.c
        /\ \E i, j \in 1..Len(out) :
              /\ i < j /\ j < Len(out)
              /\ out[i] = Msg(ev.c, "full-text", "Connection established")
              /\ out[j] = Msg(ev.c, "set-model-and-conf", ev.c)
              /\ out[Len(out)] = Msg(ev.c, "control", "start-mic")
\* client B has just been registered while client A is connected
C25_Witness ==
    /\ ev.op = "register" /\ ev.c = "B" /\ ~ev.exc
    /\ "A" \in client_connections
    /\ client_group_map["B"] = NoGroup /\ received_data_buffers["B"] = <<>>
    /\ out[Len(out)] = Msg("B", "control", "start-mic")

\* C26: the messages of one client are handled strictly in receipt order: the
\* handler of a message starts only when no handler of the same client is in
\* progress, so the handler of the n-th message has returned or failed before
\* the handler of the (n+1)-th starts; while a handler is suspended the only
\* steps of that client are the handler's own, the end of a turn task that
\* runs in the background, and the peer closing its socket
MessageTags ==
    {"add-client-to-group", "remove-client-from-group", "request-group-info",
     "fetch-history-list", "fetch-and-set-history", "create-new-history",
     "delete-history", "interrupt-signal", "mic-audio-data", "mic-audio-end",
     "text-input", "ai-speak-signal", "fetch-configs", "switch-config",
     "fetch-backgrounds", "audio-play-start", "expression-command",
     "motion-command", "text-generation-request", "set-backend-mode",
     "get-backend-mode", "raw-audio-data", "unknown"}
HandlerInProgress(c) ==
    pc[c] \in {"gen_wait", "trigger_wait", "interrupt_wait", "vad_wait"}
C26_HandledInReceiptOrder ==
    [][\A c \in Clients :
         /\ (ev'.c = c /\ ev'.op \in MessageTags) =>
                /\ pc[c] = "recv" /\ ~HandlerInProgress(c)
                /\ local[c] = NoLocal
         /\ (HandlerInProgress(c) /\ ev'.c = c) =>
                ev'.op \in {"text-generation-chunk", "agent-output",
                            "text-generation-response", "text-generation-error",
                            "trigger-started", "interrupt-done", "vad-output",
                            "raw-audio-end", "task-done",
                            "task-cancelled", "transport-close"}
      ]_vars
\* a stream of a client has started after two backend-mode messages of the
\* same client had been handled, and its handler is suspended
C26_Witness ==
    /\ ev.op = "text-generation-request" /\ ev.arg = "started"
    /\ HandlerInProgress(ev.c)
    /\ client_adapters[ev.c].instance = 2

\* C27: while a generation of one client is in flight and suspended, be it a
\* conversation turn that runs as a task or a text-generation stream, a
\* message that arrives from any other client whose loop is waiting for one is
\* routed and handled at once: its handler can take its step, and no loop has
\* to wait for the generation of another session to finish
InFlight(c) ==
    Streaming(c) \/ \E t \in TaskIds : tasks[t].owner = c /\ tasks[t].state = "running"
C27_OthersNotBlocked ==
    \A a, b \in Clients :
        (a # b /\ InFlight(a) /\ pc[b] = "recv" /\ transportOpen[b]) =>
            /\ ENABLED HandleGetBackendMode(b)
            /\ ENABLED HandleTextGenerationRequest(b, "Say hello")
\* a message of client B was handled while the stream of client A had sent
\* one chunk and was suspended before its next, and a turn of B was running
C27_Witness ==
    /\ ev.op = "get-backend-mode" /\ ev.c = "B"
    /\ Streaming("A") /\ Len(local["A"].chunks) = 1
    /\ \E t \in TaskIds : tasks[t].owner = "B" /\ tasks[t].state = "running"

\* C28: at no time are two generations in flight for one client: the turns
\* of the client that are running and its text-generation stream, taken
\* together, are never more than one
GenerationsInFlight(c) ==
    Cardinality({t \in TaskIds : tasks[t].owner = c /\ tasks[t].state = "running"})
        + (IF Streaming(c) THEN 1 ELSE 0)
C28_OneGenerationPerClient ==
    \A c \in Clients : GenerationsInFlight(c) <= 1

\* C29: conversation state of a session is not shared between clients: a
\* fetch-and-set-history or a create-new-history of client a changes neither
\* the active history id of another connected client b nor the conversation
\* memory the agent engine uses for the turns of b
C29_HistoryIsPerSession ==
    [][\A a, b \in Clients :
         (/\ a # b /\ ev'.c = a
          /\ ev'.op \in {"fetch-and-set-history", "create-new-history"}
          /\ b \in DOMAIN client_contexts) =>
             /\ b \in DOMAIN client_contexts'
             /\ client_contexts'[b].history_uid = client_contexts[b].history_uid
             /\ MemoryOf(b)' = MemoryOf(b)
      ]_vars

\* C30: an interrupt-signal of client c is handled as a group interrupt if and
\* only if c is in a group of more than one member; in no group or in a group
\* of one it is handled as an individual interrupt, which requests the
\* cancellation of c's own task and of no other, leaves the contexts of the
\* other clients alone, and passes on the heard response of the message (the
\* empty text when the message has none), which c's memory holds afterwards
C30_InterruptDispatch ==
    [][\A c \in Clients :
         /\ (ev'.op = "interrupt-signal" /\ ev'.c = c) =>
                /\ (ev'.arg = "group") <=>
                       (/\ c \in DOMAIN client_group_map
                        /\ client_group_map[c] \in DOMAIN groups
                        /\ Cardinality(groups[client_group_map[c]].members) > 1)
                /\ ev'.arg \in {"group", "individual"}
                /\ ev'.arg = "individual" =>
                       /\ \A t \in TaskIds :
                              tasks'[t] # tasks[t] =>
                                  /\ tasks[t].owner = c /\ tasks[t].state = "running"
                                  /\ tasks'[t].state = "cancelling"
                                  /\ local'[c].awaiting = {t}
                                  /\ ev'.input = <<local'[c].heard>>
                       /\ local'[c].gid = NoGroup
                       /\ \A b \in Clients \ {c} : local'[b] = local[b]
                       /\ UNCHANGED <<client_contexts, current_conversation_tasks, groupVars>>
         /\ (ev'.op = "interrupt-done" /\ ev'.c = c /\ local[c].gid = NoGroup) =>
                /\ MemoryOf(c)' = local[c].heard
                /\ out' = <<>>
                /\ \A b \in DOMAIN current_conversation_tasks \ {c} :
                       /\ b \in DOMAIN current_conversation_tasks'
                       /\ current_conversation_tasks'[b] = current_conversation_tasks[b]
                /\ UNCHANGED <<client_contexts, tasks, groupVars>>
      ]_vars
\* the only member of a group of one interrupted its running turn with "ok"
\* while the other client had a running turn, which still runs
C30_Witness ==
    /\ ev.op = "interrupt-done" /\ MemoryOf(ev.c) = "ok"
    /\ GetClientGroup(ev.c) # NoGroup /\ GetGroupMembers(ev.c) = {ev.c}
    /\ ev.c \notin DOMAIN current_conversation_tasks
    /\ \E b \in Clients \ {ev.c} :
          /\ b \in DOMAIN current_conversation_tasks
          /\ tasks[current_conversation_tasks[b]].state = "running"

\* C31: when client c disconnects, the group interrupt (the cancellation of
\* the active tasks of the members of c's group, awaited, with an empty heard
\* response) is performed if and only if the group of c had more than one
\* member at that time and has an active task
C31_DisconnectGroupInterrupt ==
    [][\A c \in Clients :
         (ev'.op = "disconnect" /\ ev'.c = c) =>
             ((/\ local'[c].kind = "disconnect" /\ local'[c].awaiting # {}
               /\ local'[c].heard = "")
              <=> (/\ Cardinality(GetGroupMembers(c)) > 1
                   /\ GroupInterruptTargets(GetClientGroup(c)) # {}))
      ]_vars

\* C32: every group-update envelope sent to a client c carries the members of
\* the group c is in at that time and is_owner true exactly when c is the
\* owner of that group; when c is in no group it carries no member and
\* is_owner false.  So among the group-updates that describe one group state
\* at most one recipient is told that it is the owner
C32_GroupUpdateContent ==
    /\ \A i \in 1..Len(out) :
          out[i].type = "group-update" =>
              LET c == out[i].to IN
              IF GroupsOf(c) # {}
              THEN \A g \in GroupsOf(c) :
                       /\ out[i].members = groups[g].members
                       /\ out[i].is_owner = (groups[g].owner = c)
              ELSE out[i].members = {} /\ ~out[i].is_owner
    /\ \A i, j \in 1..Len(out) :
          (/\ out[i].type = "group-update" /\ out[j].type = "group-update"
           /\ out[i].members = out[j].members /\ out[i].members # {}
           /\ out[i].is_owner /\ out[j].is_owner) => out[i].to = out[j].to
\* a group of three was told of its members: the owner with is_owner true,
\* the two others with is_owner false
C32_Witness ==
    /\ Len(out) = 3
    /\ \A i \in 1..3 : out[i].type = "group-update" /\ out[i].members = Clients
    /\ Cardinality({i \in 1..3 : out[i].is_owner}) = 1
    /\ {out[i].to : i \in 1..3} = Clients

\* C33: an interrupt-signal, individual or group, changes no group
\* membership: the members and the owner of every group and the reverse map
\* are after each step of the interrupt what they were before it, so a
\* request-group-info that follows reports to every client what it would have
\* reported before
C33_InterruptKeepsGroups ==
    [][ev'.op \in {"interrupt-signal", "interrupt-done"} =>
          /\ groups' = groups
          /\ client_group_map' = client_group_map
          /\ \A c \in Clients : GroupUpdate(c)' = GroupUpdate(c)
      ]_vars
\* a member of a pair interrupted the running turn of the pair with "ok": the
\* turn was cancelled and the pair is still a pair
C33_Witness ==
    /\ ev.op = "interrupt-done" /\ MemoryOf(ev.c) = "ok"
    /\ GetGroupMembers(ev.c) = Two
    /\ Len(out) = 2
    /\ TasksIn("cancelled") # {}
    /\ GroupUpdate("A").members = Two /\ GroupUpdate("B").members = Two

\* C34: an audio-play-start of client c is echoed, as a silent payload that
\* carries the display text, to every other member of c's group that can be
\* reached and not to c, exactly when the group of c has more than one member
\* and the message has a display_text; in every other case nothing is sent
C34_PlayStartEcho ==
    ev.op = "audio-play-start" =>
        LET c == ev.c
            others == {m \in GetGroupMembers(c) \ {c} : Reachable(m)}
        IN IF Cardinality(GetGroupMembers(c)) > 1 /\ ev.arg = "display_text"
           THEN /\ {out[i].to : i \in 1..Len(out)} = others
                /\ Len(out) = Cardinality(others)
                /\ \A i \in 1..Len(out) : out[i] = Msg(out[i].to, "audio", "display_text")
           ELSE out = <<>>
\* client B announced a playback with a display text in a group of three:
\* A and C got the echo
C34_Witness ==
    /\ ev.op = "audio-play-start" /\ ev.c = "B" /\ ev.arg = "display_text"
    /\ GetGroupMembers("B") = Clients
    /\ Len(out) = 2 /\ {out[i].to : i \in 1..Len(out)} = {"A", "C"}

\* C35 as stated: each mic-audio-data message of client c appends its samples,
\* in order, to the end of c's buffer; a message with missing or empty audio
\* leaves the buffer unchanged, and no message of a client changes the buffer
\* of another client
C35_BufferIsConcatenation ==
    [][\A c \in Clients :
         (ev'.op = "mic-audio-data" /\ ev'.c = c) =>
             /\ received_data_buffers'[c] =
                    received_data_buffers[c] \o
                        (IF ev'.exc THEN <<>> ELSE ev'.input[1].samples)
             /\ \A b \in DOMAIN received_data_buffers \ {c} :
                    received_data_buffers'[b] = received_data_buffers[b]
             /\ DOMAIN received_data_buffers' = DOMAIN received_data_buffers
      ]_vars
\* C35 as amended: each mic-audio-data message of client c appends the float32
\* values of its samples, in order, to the end of c's buffer, so that between
\* two drains the buffer is the concatenation of the float32 values of all
\* received chunks in receipt order; a message with missing or empty audio
\* leaves the buffer unchanged, and no message of a client changes the buffer
\* of another client
C35_BufferIsFloat32Concatenation ==
    [][\A c \in Clients :
         (ev'.op = "mic-audio-data" /\ ev'.c = c) =>
             LET old == received_data_buffers[c]
                 new == received_data_buffers'[c]
                 samples == IF ev'.exc THEN <<>> ELSE ev'.input[1].samples
             IN /\ Len(new) = Len(old) + Len(samples)
                /\ \A i \in 1..Len(old) : new[i] = old[i]
                /\ \A i \in 1..Len(samples) : new[Len(old) + i] = Float32(samples[i])
                /\ ev'.input[1].kind = "missing" => new = old
                /\ \A b \in DOMAIN received_data_buffers \ {c} :
                       received_data_buffers'[b] = received_data_buffers[b]
                /\ DOMAIN received_data_buffers' = DOMAIN received_data_buffers
      ]_vars
\* the chunk [16777217] arrived after the chunk [1]; the other client's buffer
\* holds a chunk of its own
C35_Witness ==
    /\ ev.op = "mic-audio-data" /\ ~ev.exc
    /\ ev.input = <<[kind |-> "list", samples |-> <<16777217>>]>>
    /\ received_data_buffers[ev.c] = <<1, 16777216>>
    /\ \E b \in DOMAIN received_data_buffers \ {ev.c} : received_data_buffers[b] = <<1>>
\* C36: while the client's transport accepts, every segment the VAD yields that
\* is longer than the threshold is appended, decoded, to the end of the sender's
\* buffer and followed in the same step by exactly one "mic-audio-end" control
\* signal to the sender; a segment of at most the threshold leaves every buffer
\* as it was and sends nothing.  One signal a long segment, none otherwise.
C36_SegmentsAppendedAndSignalled ==
    [][\A c \in Two :
         (ev'.op = "vad-output" /\ ev'.c = c /\ ~ev'.exc
            /\ ev'.input[1].kind = "segment") =>
           LET o == ev'.input[1]
               decoded == [i \in 1..(o.len \div 2) |-> o.sample]
           IN  IF o.len > SegmentThreshold
               THEN /\ received_data_buffers' =
                         [received_data_buffers EXCEPT ![c] = @ \o decoded]
                    /\ out' = <<Msg(c, "control", "mic-audio-end")>>
               ELSE /\ received_data_buffers' = received_data_buffers
                    /\ out' = <<>>]_vars
\* a second long segment of one chunk has been appended after the first and signalled
C36_Witness ==
    \E c \in Two :
        /\ ev.op = "vad-output" /\ ev.c = c /\ ev.arg = "speech"
        /\ local[c].produced = 2
        /\ Len(received_data_buffers[c]) = 2 * (ev.input[1].len \div 2)
        /\ out = <<Msg(c, "control", "mic-audio-end")>>

\* C37: while the client's transport accepts, a pause marker yielded by the VAD
\* sends exactly one "interrupt" control signal to the sender and changes no
\* buffer; a resume marker sends nothing and changes no buffer; an empty or
\* missing chunk returns without waiting for any VAD output.
C37_PauseAndResumeMarkers ==
    [][\A c \in Two :
         /\ (ev'.op = "vad-output" /\ ev'.c = c /\ ~ev'.exc
               /\ ev'.input[1].kind = "pause") =>
                /\ out' = <<Msg(c, "control", "interrupt")>>
                /\ received_data_buffers' = received_data_buffers
         /\ (ev'.op = "vad-output" /\ ev'.c = c /\ ev'.input[1].kind = "resume") =>
                /\ out' = <<>>
                /\ ~ev'.exc
                /\ UNCHANGED <<pc, transportOpen, sessionVars>>
         /\ (ev'.op = "raw-audio-data" /\ ev'.c = c /\ ev'.input[1] = "") =>
                /\ ~Vadding(c)'
                /\ out' = <<>>
                /\ UNCHANGED <<pc, transportOpen, sessionVars>>]_vars
\* a pause marker has been signalled to a client whose buffer holds samples
C37_Witness ==
    \E c \in Two :
        /\ ev.op = "vad-output" /\ ev.c = c /\ ev.arg = "pause"
        /\ out = <<Msg(c, "control", "interrupt")>>
        /\ Len(received_data_buffers[c]) > 0

\* C38: a client gets its adapter on a request of its own that needs one (a
\* command, a text generation, a mode switch), never on registration; once it has one, every request of any client but a
\* set-backend-mode of its own leaves it the same instance, and every request
\* but an expression-command, a motion-command or a set-backend-mode of its own
\* leaves the recorded expression and motion as they were; the adapter goes
\* only with the client's disconnect or set-backend-mode
AdapterRequests == {"expression-command", "motion-command", "set-backend-mode"}
C38_AdapterLazyAndStable ==
    [][\A c \in Clients :
         /\ ev'.op = "register" => ev'.c \notin DOMAIN client_adapters'
         /\ (c \notin DOMAIN client_adapters /\ c \in DOMAIN client_adapters') =>
                /\ ev'.c = c
                /\ ev'.op \in AdapterRequests \cup {"text-generation-request"}
                /\ ev'.op \in {"set-backend-mode", "text-generation-request"} =>
                       CharacterState(client_adapters'[c]) = CharacterState(NewAdapter(1))
         /\ (c \in DOMAIN client_adapters /\ c \in DOMAIN client_adapters') =>
                /\ ~(ev'.c = c /\ ev'.op = "set-backend-mode") =>
                       client_adapters'[c].instance = client_adapters[c].instance
                /\ ~(ev'.c = c /\ ev'.op \in AdapterRequests) =>
                       client_adapters'[c] = client_adapters[c]
         /\ (c \in DOMAIN client_adapters /\ c \notin DOMAIN client_adapters') =>
                ev'.c = c /\ ev'.op \in {"disconnected", "set-backend-mode"}
      ]_vars
\* an adapter created by an expression-command, not by a mode switch, still
\* reports the expression and the motion it recorded when a later request
\* that changes no mode has been handled
C38_Witness ==
    /\ ev.op = "get-backend-mode"
    /\ ev.c \notin DOMAIN backend_modes
    /\ ev.c \in DOMAIN client_adapters
    /\ CharacterState(client_adapters[ev.c]) =
           [current_expression |-> <<0>>,
            current_motion |-> <<[group |-> "idle", index |-> 0, loop |-> FALSE]>>]

\* C39: while a text-generation-request of client c is streaming, every step
\* of c is a step of that stream, of one of its conversation tasks or the
\* closing of its transport, never the handling of a message; the stream ends
\* only by its own final marker or error envelope to c, or by a send that
\* raises, after which the loop of c handles no message at all; and no
\* interrupt-signal, of c or of another client, starts while its sender is
\* streaming or changes the progress of any stream
StreamSteps ==
    {"agent-output", "text-generation-chunk", "text-generation-response",
     "text-generation-error"}
C39_StreamNotInterrupted ==
    [][\A c \in Clients :
         /\ (Streaming(c) /\ ev'.c = c) =>
                ev'.op \in StreamSteps \cup {"task-done", "task-cancelled", "transport-close"}
         /\ (Streaming(c) /\ ~Streaming(c)') =>
                /\ ev'.c = c
                /\ ev'.op \in StreamSteps
                /\ IF ev'.exc THEN pc'[c] = "fatal"
                   ELSE /\ Len(out') = 1 /\ out'[1].to = c
                        /\ \/ out'[1].type = "text-generation-response" /\ out'[1].is_complete
                           \/ out'[1].type = "error"
         /\ ev'.op = "interrupt-signal" =>
                /\ ~Streaming(ev'.c)
                /\ Streaming(c) => (Streaming(c)' /\ local'[c] = local[c])
      ]_vars
\* a chunk of a stream of c has been sent while a conversation turn of c, which
\* an interrupt-signal of c would cancel, is running
C39_Witness ==
    \E c \in Clients :
        /\ Streaming(c) /\ transportOpen[c]
        /\ ev.op = "text-generation-chunk" /\ ev.c = c
        /\ Len(local[c].chunks) = 2
        /\ \E t \in TaskIds : tasks[t].owner = c /\ tasks[t].state = "running"

\* C40: a trigger_expression or trigger_motion whose notification to the
\* client's transport raises returns status "error", and after any trigger
\* that returns status "error" the adapter reports the expression and the
\* motion it reported before the call (none, if the call was the adapter's
\* first); where the acknowledgement can still be sent it carries that status
TriggerSteps == {"expression-command", "motion-command"}
C40_FailedTriggerRecordsNothing ==
    [][(ev'.op \in TriggerSteps /\ ev'.arg \in AdapterOutcomes) =>
          LET c == ev'.c IN
          /\ ev'.exc => ev'.arg = "error"
          /\ ev'.arg = "error" =>
                /\ c \in DOMAIN client_adapters'
                /\ CharacterState(client_adapters'[c]) =
                       IF c \in DOMAIN client_adapters
                       THEN CharacterState(client_adapters[c])
                       ELSE [current_expression |-> None, current_motion |-> None]
                /\ ~ev'.exc =>
                       out' = <<Ack(c, IF ev'.op = "expression-command"
                                       THEN "expression-ack" ELSE "motion-ack", "error")>>
      ]_vars
\* the notification of a "tap" motion raised because the peer had gone: the
\* adapter still reports the "idle" motion and the expression recorded before
C40_Witness ==
    /\ ev.op = "motion-command" /\ ev.exc /\ ev.arg = "error"
    /\ ev.input[1].motion_group = <<"tap">>
    /\ ev.c \in DOMAIN client_adapters
    /\ CharacterState(client_adapters[ev.c]) =
           [current_expression |-> <<0>>,
            current_motion |-> <<[group |-> "idle", index |-> 0, loop |-> FALSE]>>]

====
